---- MODULE Spec2Model ----
(***************************************************************************)
(* RouterTools: the directive-extraction-and-execution loop of the        *)
(* Anthropic router assistants (src/src/router_ui.py,                      *)
(* src/src/anthropic_assistant.py) and the remote session they drive       *)
(* (src/src/router_manager.py).                                            *)
(*                                                                         *)
(* Text.  A Python str is modelled as a run-length encoded sequence of    *)
(* characters: a sequence of pairs <<c, n>>, n >= 1, no two neighbouring  *)
(* pairs with the same c.  c is a TLA+ string naming one character (the   *)
(* character itself, or a name such as "ESC" for a code point TLA+ cannot *)
(* write).  Length, slicing, concatenation and strip are exact on this    *)
(* encoding, and two encodings are equal iff the strings are.             *)
(***************************************************************************)
EXTENDS Integers, Sequences, FiniteSets, TLC

(***************************** strings *************************************)
(* The operators recurse by halving a range of runs, not run by run: a     *)
(* text of some hundred runs is then a recursion some ten calls deep.      *)

EmptyStr == <<>>

Rep(c, n) == IF n <= 0 THEN <<>> ELSE << <<c, n>> >>

\* the number of characters in runs lo..hi of a run list
RECURSIVE SumRange(_, _, _)
SumRange(x, lo, hi) ==
    IF lo > hi THEN 0
    ELSE IF lo = hi THEN x[lo][2]
    ELSE LET mid == (lo + hi) \div 2
         IN  SumRange(x, lo, mid) + SumRange(x, mid + 1, hi)

\* len(s)
SLen(s) == SumRange(s, 1, Len(s))

\* s + t
Cat(s, t) ==
    IF s = <<>> THEN t
    ELSE IF t = <<>> THEN s
    ELSE IF s[Len(s)][1] = t[1][1]
         THEN SubSeq(s, 1, Len(s) - 1)
                \o << <<t[1][1], s[Len(s)][2] + t[1][2]>> >>
                \o Tail(t)
         ELSE s \o t

\* the string made of runs lo..hi of a run list (neighbouring runs of the
\* same character are merged)
RECURSIVE Join(_, _, _)
Join(x, lo, hi) ==
    IF lo > hi THEN <<>>
    ELSE IF lo = hi THEN <<x[lo]>>
    ELSE LET mid == (lo + hi) \div 2
         IN  Cat(Join(x, lo, mid), Join(x, mid + 1, hi))

\* the least j in lo..hi such that runs 1..j hold at least k characters
\* (there is one: runs 1..hi do)
RECURSIVE ReachIndex(_, _, _, _)
ReachIndex(s, k, lo, hi) ==
    IF lo >= hi THEN hi
    ELSE LET mid == (lo + hi) \div 2
         IN  IF SumRange(s, 1, mid) >= k
             THEN ReachIndex(s, k, lo, mid)
             ELSE ReachIndex(s, k, mid + 1, hi)

\* the first k characters of s, which end in run j
TakeAt(s, k, j) ==
    SubSeq(s, 1, j - 1) \o << <<s[j][1], k - SumRange(s, 1, j - 1)>> >>

\* s[:k], k >= 0
Take(s, k) ==
    IF k <= 0 THEN <<>>
    ELSE IF k >= SLen(s) THEN s
    ELSE TakeAt(s, k, ReachIndex(s, k, 1, Len(s)))

\* s without its first k characters, the first of the rest in run j
DropAt(s, k, j) ==
    << <<s[j][1], SumRange(s, 1, j) - k>> >> \o SubSeq(s, j + 1, Len(s))

\* s[k:], k >= 0
Drop(s, k) ==
    IF k <= 0 THEN s
    ELSE IF k >= SLen(s) THEN <<>>
    ELSE DropAt(s, k, ReachIndex(s, k + 1, 1, Len(s)))

\* the least index in lo..Len(x) of a run whose character is in chars, or 0
FirstIndex(x, lo, chars) ==
    IF \E j \in lo..Len(x) : x[j][1] \in chars
    THEN CHOOSE j \in lo..Len(x) :
            /\ x[j][1] \in chars
            /\ \A m \in lo..(j - 1) : x[m][1] \notin chars
    ELSE 0

\* the least index in lo..Len(x) of a run whose character is not in chars,
\* or Len(x) + 1
FirstOutside(x, lo, chars) ==
    IF \E j \in lo..Len(x) : x[j][1] \notin chars
    THEN CHOOSE j \in lo..Len(x) :
            /\ x[j][1] \notin chars
            /\ \A m \in lo..(j - 1) : x[m][1] \in chars
    ELSE Len(x) + 1

\* the greatest index of a run whose character is not in chars, or 0
LastOutside(x, chars) ==
    IF \E j \in 1..Len(x) : x[j][1] \notin chars
    THEN CHOOSE j \in 1..Len(x) :
            /\ x[j][1] \notin chars
            /\ \A m \in (j + 1)..Len(x) : x[m][1] \in chars
    ELSE 0

\* the characters str.strip() removes that occur in the model's texts
Whitespace == {" ", "\n", "\t", "\r"}

\* s.strip()
Strip(s) == SubSeq(s, FirstOutside(s, 1, Whitespace), LastOutside(s, Whitespace))

\* a string literal, written as the tuple of its characters
Lit(t) == Join([i \in 1..Len(t) |-> <<t[i], 1>>], 1, Len(t))

\* the concatenation of a sequence of strings
RECURSIVE CatRange(_, _, _)
CatRange(ss, lo, hi) ==
    IF lo > hi THEN <<>>
    ELSE IF lo = hi THEN ss[lo]
    ELSE LET mid == (lo + hi) \div 2
         IN  Cat(CatRange(ss, lo, mid), CatRange(ss, mid + 1, hi))

CatAll(ss) == CatRange(ss, 1, Len(ss))

\* s.startswith(p)
StartsWith(s, p) == Take(s, SLen(p)) = p

\* s.endswith(p)
EndsWith(s, p) == SLen(s) >= SLen(p) /\ Drop(s, SLen(s) - SLen(p)) = p

Digits == <<"0", "1", "2", "3", "4", "5", "6", "7", "8", "9">>

\* str(n) of an int n >= 0
RECURSIVE Dec(_)
Dec(n) ==
    IF n < 10 THEN Rep(Digits[n + 1], 1)
    ELSE Cat(Dec(n \div 10), Rep(Digits[(n % 10) + 1], 1))

\* Runs lo..hi of s with every run of a structural character split into
\* single characters, so that a scanner can walk the text one structural
\* character at a time (the runs of other characters stay whole).
RECURSIVE ExplodeRange(_, _, _, _)
ExplodeRange(s, structural, lo, hi) ==
    IF lo > hi THEN <<>>
    ELSE IF lo = hi
    THEN IF s[lo][1] \in structural
         THEN [k \in 1..s[lo][2] |-> <<s[lo][1], 1>>]
         ELSE <<s[lo]>>
    ELSE LET mid == (lo + hi) \div 2
         IN  ExplodeRange(s, structural, lo, mid)
                \o ExplodeRange(s, structural, mid + 1, hi)

Explode(s, structural) == ExplodeRange(s, structural, 1, Len(s))

\* the string of runs i..j of an exploded run list
Implode(x, i, j) == Join(x, i, j)

(************************ directive extractor ******************************)
(* re.findall(r'\{[^{}]*"cmd"[^{}]*\}', response) and json.loads(json_str). *)
(* json.loads is CPython's json.decoder (3.8 - 3.12 wording of the         *)
(* messages), restricted to what a match can hold over the model's         *)
(* alphabet: a flat object whose keys and values are string literals.      *)
(* The alphabet has no digit, no '[', no '-', no backslash and no word     *)
(* starting with n, t, f, N or I in value position, so every other value   *)
(* is "Expecting value", as in the decoder.                                *)
(***************************************************************************)

Braces == {"{", "}"}

\* the index of the first brace at or after i, or 0
NextBrace(x, i) == FirstIndex(x, i, Braces)

\* whether runs a..b hold the five characters "cmd" (with its quotes)
HasCmdLiteral(x, a, b) ==
    \E k \in a..(b - 4) :
        /\ x[k][1] = "\""
        /\ x[k + 1] = <<"c", 1>>
        /\ x[k + 2] = <<"m", 1>>
        /\ x[k + 3] = <<"d", 1>>
        /\ x[k + 4][1] = "\""

RECURSIVE ScanMatches(_, _)

\* the matches from the "{" at run b on, j being the next brace after it
MatchAt(x, b, j) ==
    IF j # 0 /\ x[j][1] = "}" /\ HasCmdLiteral(x, b + 1, j - 1)
    THEN <<Implode(x, b, j)>> \o ScanMatches(x, j + 1)
    ELSE ScanMatches(x, b + 1)

\* the matches from run b on, b being the next "{" (0: there is none)
MatchFrom(x, b) == IF b = 0 THEN <<>> ELSE MatchAt(x, b, NextBrace(x, b + 1))

\* the leftmost non-overlapping matches from run i on, in order: a match
\* starts at a "{", runs to the next brace, which is a "}", and holds "cmd"
ScanMatches(x, i) == MatchFrom(x, FirstIndex(x, i, {"{"}))

\* re.findall(json_pattern, text)
FindAll(text) == ScanMatches(Explode(text, Braces), 1)

JsonStructural == {"{", "}", "\"", ":", ","}
JsonWhitespace == {" ", "\n", "\t", "\r"}
ControlChars == {"\n", "\t", "\r"}

MsgExpectingName ==
    Lit(<<
        "E", "x", "p", "e", "c", "t", "i", "n", "g", " ", "p", "r", "o",
        "p", "e", "r", "t", "y", " ", "n", "a", "m", "e", " ", "e", "n",
        "c", "l", "o", "s", "e", "d", " ", "i", "n", " ", "d", "o", "u",
        "b", "l", "e", " ", "q", "u", "o", "t", "e", "s" >>)

MsgExpectingColon ==
    Lit(<<
        "E", "x", "p", "e", "c", "t", "i", "n", "g", " ", "'", ":", "'",
        " ", "d", "e", "l", "i", "m", "i", "t", "e", "r" >>)

MsgExpectingValue ==
    Lit(<<
        "E", "x", "p", "e", "c", "t", "i", "n", "g", " ", "v", "a", "l",
        "u", "e" >>)

MsgExpectingComma ==
    Lit(<<
        "E", "x", "p", "e", "c", "t", "i", "n", "g", " ", "'", ",", "'",
        " ", "d", "e", "l", "i", "m", "i", "t", "e", "r" >>)

MsgUnterminated ==
    Lit(<<
        "U", "n", "t", "e", "r", "m", "i", "n", "a", "t", "e", "d", " ",
        "s", "t", "r", "i", "n", "g", " ", "s", "t", "a", "r", "t", "i",
        "n", "g", " ", "a", "t" >>)

MsgControlChar ==
    Lit(<<
        "I", "n", "v", "a", "l", "i", "d", " ", "c", "o", "n", "t", "r",
        "o", "l", " ", "c", "h", "a", "r", "a", "c", "t", "e", "r", " ",
        "a", "t" >>)

MsgLine ==
    Lit(<<
        ":", " ", "l", "i", "n", "e", " " >>)

MsgColumn ==
    Lit(<<
        " ", "c", "o", "l", "u", "m", "n", " " >>)

MsgChar ==
    Lit(<<
        " ", "(", "c", "h", "a", "r", " " >>)

MsgCloseParen ==
    Lit(<<
        ")" >>)

CmdKey ==
    Lit(<<
        "c", "m", "d" >>)


\* the character offset of run i of x
Offset(x, i) == SumRange(x, 1, i - 1)

\* the character of run i, "" past the end
Ch(x, i) == IF i >= 1 /\ i <= Len(x) THEN x[i][1] ELSE ""

\* _w(s, end).end(): the first run at or after i that is not white space
SkipWs(x, i) == FirstOutside(x, i, JsonWhitespace)

JsonError(msg, pos) == [ok |-> FALSE, msg |-> msg, pos |-> pos, pairs |-> <<>>]

JsonOk(pairs) == [ok |-> TRUE, msg |-> <<>>, pos |-> 0, pairs |-> pairs]

\* the string whose opening quote is run begin - 1, j being the first quote
\* or control character after it (0: there is none)
ScanStringAt(x, begin, j) ==
    IF j = 0
    THEN [ok |-> FALSE, msg |-> MsgUnterminated,
          pos |-> Offset(x, begin - 1), val |-> <<>>, next |-> 0]
    ELSE IF x[j][1] = "\""
    THEN [ok |-> TRUE, msg |-> <<>>, pos |-> 0,
          val |-> Implode(x, begin, j - 1), next |-> j + 1]
    ELSE [ok |-> FALSE, msg |-> MsgControlChar, pos |-> Offset(x, j),
          val |-> <<>>, next |-> 0]

\* py_scanstring from run begin, the run after the opening quote, to the
\* closing quote: [ok, val, next] or [ok, msg, pos]
ScanString(x, begin) ==
    ScanStringAt(x, begin, FirstIndex(x, begin, {"\""} \cup ControlChars))

\* JSONObject's loop from run i, the run after a key's opening quote
RECURSIVE ParseMembers(_, _, _)

\* after a "," : the next key must open at run q
NextKey(x, q, pairs) ==
    IF Ch(x, q) # "\"" THEN JsonError(MsgExpectingName, Offset(x, q))
    ELSE ParseMembers(x, q + 1, pairs)

\* after a member, at run n: "}" ends the object, "," announces a key
AfterValue(x, n, pairs) ==
    IF Ch(x, n) = "}" THEN JsonOk(pairs)
    ELSE IF Ch(x, n) # "," THEN JsonError(MsgExpectingComma, Offset(x, n))
    ELSE NextKey(x, SkipWs(x, n + 1), pairs)

\* the value string has been scanned as v
ValueScanned(x, key, v, pairs) ==
    IF ~v.ok THEN JsonError(v.msg, v.pos)
    ELSE AfterValue(x, SkipWs(x, v.next), Append(pairs, <<key, v.val>>))

\* the value starts at run v0
ValueAt(x, key, v0, pairs) ==
    IF Ch(x, v0) # "\"" THEN JsonError(MsgExpectingValue, Offset(x, v0))
    ELSE ValueScanned(x, key, ScanString(x, v0 + 1), pairs)

\* the ":" is expected at run c
ColonAt(x, key, c, pairs) ==
    IF Ch(x, c) # ":" THEN JsonError(MsgExpectingColon, Offset(x, c))
    ELSE ValueAt(x, key, SkipWs(x, c + 1), pairs)

\* the key string has been scanned as k
KeyScanned(x, k, pairs) ==
    IF ~k.ok THEN JsonError(k.msg, k.pos)
    ELSE ColonAt(x, k.val, SkipWs(x, k.next), pairs)

ParseMembers(x, i, pairs) == KeyScanned(x, ScanString(x, i), pairs)

\* JSONObject: the first thing after the "{" is at run i
ObjectAt(x, i) ==
    IF Ch(x, i) = "}" THEN JsonOk(<<>>)
    ELSE IF Ch(x, i) # "\"" THEN JsonError(MsgExpectingName, Offset(x, i))
    ELSE ParseMembers(x, i + 1, <<>>)

JsonObject(x) == ObjectAt(x, SkipWs(x, 2))

\* json.loads(json_str) of a match (which starts with "{" and ends at its
\* first "}"): [ok, pairs] with the members in order, or [ok, msg, pos].
\* Keys and values are strings without escapes, as in the texts of the
\* environment below; any other value is outside this decoder.
JsonLoads(s) == JsonObject(Explode(s, JsonStructural))

\* 'cmd' in command
HasCmd(pairs) == \E k \in 1..Len(pairs) : pairs[k][1] = CmdKey

\* command['cmd']: a dict keeps the last value given for a key
RECURSIVE GetCmdFrom(_, _)
GetCmdFrom(pairs, k) ==
    IF k < 1 THEN <<>>
    ELSE IF pairs[k][1] = CmdKey THEN pairs[k][2] ELSE GetCmdFrom(pairs, k - 1)

GetCmd(pairs) == GetCmdFrom(pairs, Len(pairs))

IsNewlineRun(r) == r[1] = "\n"

\* s.count('\n')
CountNewlines(s) == SLen(SelectSeq(s, IsNewlineRun))

\* the characters of s after its last newline
AfterLastNewline(s) ==
    IF \E j \in 1..Len(s) : s[j][1] = "\n"
    THEN LET j == CHOOSE j \in 1..Len(s) :
                    /\ s[j][1] = "\n"
                    /\ \A m \in (j + 1)..Len(s) : s[m][1] # "\n"
         IN  SumRange(s, j + 1, Len(s))
    ELSE SLen(s)

\* "<msg>: line <lineno> column <colno> (char <pos>)", before being doc[:pos]
ErrorTextAt(before, msg, pos) ==
    CatAll(<<msg, MsgLine, Dec(CountNewlines(before) + 1),
             MsgColumn, Dec(AfterLastNewline(before) + 1),
             MsgChar, Dec(pos), MsgCloseParen>>)

\* str(e) of the JSONDecodeError(msg, doc, pos)
JsonErrorText(doc, msg, pos) == ErrorTextAt(Take(doc, pos), msg, pos)

(***************************** the assistants ******************************)
(* UIAnthropicRouterAssistant (router_ui.py) in its blocking and its       *)
(* cooperative variant, and AnthropicRouterAssistant                       *)
(* (anthropic_assistant.py).  kind is the class of the assistant object,   *)
(* "ui" or "cli".                                                          *)
(***************************************************************************)

MaxHistory == 10
MaxCommands == 5
MaxStoredReply == 2000
ApiErrorCap == 200
UiStdoutCap == 500
UiStderrCap == 300
AiStdoutCap == 1000
AiStderrCap == 500
SummaryStdoutCap == 500
SummaryStderrCap == 300
MaxSummary == 3000
CallbackErrorCap == 100

ApiRequestFailed ==
    Lit(<<
        "A", "P", "I", " ", "r", "e", "q", "u", "e", "s", "t", " ", "f",
        "a", "i", "l", "e", "d", ":", " " >>)

UnexpectedApiFormat ==
    Lit(<<
        "U", "n", "e", "x", "p", "e", "c", "t", "e", "d", " ", "A", "P",
        "I", " ", "r", "e", "s", "p", "o", "n", "s", "e", " ", "f", "o",
        "r", "m", "a", "t", ":", " " >>)

JsonParseError ==
    Lit(<<
        "J", "S", "O", "N", " ", "p", "a", "r", "s", "e", " ", "e", "r",
        "r", "o", "r", ":", " " >>)

ExecutionError ==
    Lit(<<
        "E", "x", "e", "c", "u", "t", "i", "o", "n", " ", "e", "r", "r",
        "o", "r", ":", " " >>)

CommandErrorName ==
    Lit(<<
        "c", "o", "m", "m", "a", "n", "d", "_", "e", "r", "r", "o", "r" >>)

SummaryHeader ==
    Lit(<<
        "C", "o", "m", "m", "a", "n", "d", " ", "e", "x", "e", "c", "u",
        "t", "i", "o", "n", " ", "r", "e", "s", "u", "l", "t", "s", ":",
        "\n" >>)

CommandLabel ==
    Lit(<<
        "C", "o", "m", "m", "a", "n", "d", ":", " " >>)

SuccessLabel ==
    Lit(<<
        "S", "u", "c", "c", "e", "s", "s", ":", " " >>)

PyTrue ==
    Lit(<<
        "T", "r", "u", "e" >>)

PyFalse ==
    Lit(<<
        "F", "a", "l", "s", "e" >>)

OutputLabel ==
    Lit(<<
        "O", "u", "t", "p", "u", "t", ":", " " >>)

ErrorLabel ==
    Lit(<<
        "E", "r", "r", "o", "r", ":", " " >>)

Newline ==
    Lit(<<
        "\n" >>)

Ellipsis ==
    Lit(<<
        ".", ".", ".", "\n" >>)

ResultSeparator ==
    Lit(<<
        "-", "-", "-", "\n" >>)

TruncationMarker ==
    Lit(<<
        "\n", ".", ".", ".", " ", "(", "r", "e", "s", "u", "l", "t", "s",
        " ", "t", "r", "u", "n", "c", "a", "t", "e", "d", ")" >>)

UiPromptHead ==
    Lit(<<
        "B", "a", "s", "e", "d", " ", "o", "n", " ", "t", "h", "e", "s",
        "e", " ", "c", "o", "m", "m", "a", "n", "d", " ", "r", "e", "s",
        "u", "l", "t", "s", ",", " ", "a", "n", "s", "w", "e", "r", ":",
        " ", "'" >>)

CliPromptHead ==
    Lit(<<
        "B", "a", "s", "e", "d", " ", "o", "n", " ", "t", "h", "e", "s",
        "e", " ", "c", "o", "m", "m", "a", "n", "d", " ", "r", "e", "s",
        "u", "l", "t", "s", ",", " ", "p", "l", "e", "a", "s", "e", " ",
        "a", "n", "s", "w", "e", "r", " ", "t", "h", "e", " ", "u", "s",
        "e", "r", "'", "s", " ", "q", "u", "e", "s", "t", "i", "o", "n",
        ":", " ", "'" >>)

PromptMid ==
    Lit(<<
        "'", "\n", "\n" >>)

DetailsRule ==
    Lit(<<
        "\n", "\n", "ESC", "[", "9", "0", "m", "=", "=", "=", "=", "=",
        "=", "=", "=", "=", "=", "=", "=", "=", "=", "=", "=", "=", "=",
        "=", "=", "=", "=", "=", "=", "=", "=", "=", "=", "=", "=", "=",
        "=", "=", "=", "=", "=", "=", "=", "=", "=", "=", "=", "=", "=",
        "=", "=", "=", "=", "=", "=", "ESC", "[", "0", "m", "\n" >>)

DetailsTitle ==
    Lit(<<
        "ESC", "[", "1", "m", "C", "O", "M", "M", "A", "N", "D", " ", "E",
        "X", "E", "C", "U", "T", "I", "O", "N", " ", "R", "E", "S", "U",
        "L", "T", "S", ":", "ESC", "[", "0", "m", "\n" >>)

DetailsSucceeded ==
    Lit(<<
        "ESC", "[", "9", "2", "m", "CHECKMARK", " ", "C", "o", "m", "m",
        "a", "n", "d", " ", "s", "u", "c", "c", "e", "e", "d", "e", "d",
        ":", "ESC", "[", "0", "m", " ", "ESC", "[", "9", "6", "m" >>)

DetailsFailed ==
    Lit(<<
        "ESC", "[", "9", "1", "m", "CROSSMARK", " ", "C", "o", "m", "m",
        "a", "n", "d", " ", "f", "a", "i", "l", "e", "d", ":", "ESC", "[",
        "0", "m", " ", "ESC", "[", "9", "6", "m" >>)

DetailsOutput ==
    Lit(<<
        "ESC", "[", "9", "3", "m", "CLIPBOARD", " ", "O", "u", "t", "p",
        "u", "t", ":", "ESC", "[", "0", "m", "\n", "ESC", "[", "3", "7", "m" >>)

DetailsError ==
    Lit(<<
        "ESC", "[", "9", "1", "m", "SIREN", " ", "E", "r", "r", "o", "r",
        ":", "ESC", "[", "0", "m", " ", "ESC", "[", "3", "7", "m" >>)

DetailsReset ==
    Lit(<<
        "ESC", "[", "0", "m", "\n" >>)

CommandExecutionFailed ==
    Lit(<<
        "C", "o", "m", "m", "a", "n", "d", " ", "e", "x", "e", "c", "u",
        "t", "i", "o", "n", " ", "f", "a", "i", "l", "e", "d", ":", " " >>)

NotConnectedText ==
    Lit(<<
        "N", "o", "t", " ", "c", "o", "n", "n", "e", "c", "t", "e", "d",
        " ", "t", "o", " ", "r", "o", "u", "t", "e", "r" >>)

KeyErrorContent ==
    Lit(<<
        "'", "c", "o", "n", "t", "e", "n", "t", "'" >>)


Turn(role, content) == [role |-> role, content |-> content]

\* KeepLast keeping the oldest n turns: h[:n]
KeepFirst(h, n) == IF Len(h) <= n THEN h ELSE SubSeq(h, 1, n)

\* h[-n:]
KeepLast(h, n) == IF Len(h) <= n THEN h ELSE SubSeq(h, Len(h) - n + 1, Len(h))

\* if len(self.conversation_history) > 10: ... = self.conversation_history[-10:]
TrimHistory(h) == IF Len(h) > MaxHistory THEN KeepLast(h, MaxHistory) ELSE h

\* the head of send_message_to_anthropic[_async]: the user turn is appended
\* (and, in the UI assistant, the history is cut to its last 10 turns)
AppendUserTurn(k, h, user_message) ==
    LET h1 == Append(h, Turn("user", user_message))
    IN  IF k = "ui" THEN TrimHistory(h1) ELSE h1

\* TruncatedMessage without the cut: the whole completion is stored
StoredWhole(assistant_message) == assistant_message

\* truncated_message = assistant_message[:2000] if len(...) > 2000 else ...
TruncatedMessage(assistant_message) ==
    IF SLen(assistant_message) > MaxStoredReply
    THEN Take(assistant_message, MaxStoredReply)
    ELSE assistant_message

\* the assistant turn is appended after a successful reply
AppendAssistantTurn(k, h, assistant_message) ==
    Append(h, Turn("assistant",
                   IF k = "ui" THEN TruncatedMessage(assistant_message)
                   ELSE assistant_message))

\* ReturnedMessage returning what is stored instead of the whole completion
ReturnedAsStored(assistant_message) == TruncatedMessage(assistant_message)

\* return assistant_message
ReturnedMessage(assistant_message) == assistant_message

\* What send_message_to_anthropic[_async] does with an exception e of the
\* model request: [raised, value].  The UI assistant catches Exception; the
\* CLI assistant catches RequestException and KeyError only.
SendFailure(k, e) ==
    IF k = "ui"
    THEN [raised |-> FALSE,
          value |-> Cat(ApiRequestFailed, Take(e.text, ApiErrorCap))]
    ELSE IF e.type = "RequestException"
    THEN [raised |-> FALSE, value |-> Cat(ApiRequestFailed, e.text)]
    ELSE IF e.type = "KeyError"
    THEN [raised |-> FALSE, value |-> Cat(UnexpectedApiFormat, e.text)]
    ELSE [raised |-> TRUE, value |-> <<>>]

\* CapCommands without the cap: every match is kept
CapCommandsAbsent(k, matches) == matches

\* if len(json_commands) > 5: json_commands = json_commands[:5]
\* (the CLI assistant has no such cap)
CapCommands(k, matches) ==
    IF k = "ui" /\ Len(matches) > MaxCommands
    THEN SubSeq(matches, 1, MaxCommands)
    ELSE matches

\* SafeStdout without the cut: the whole output goes to the callback
SafeStdoutUncut(stdout) == stdout

\* safe_stdout = stdout[:500] if stdout else ""
SafeStdout(stdout) == IF stdout # <<>> THEN Take(stdout, UiStdoutCap) ELSE <<>>

\* safe_stderr = stderr[:300] if stderr else ""
SafeStderr(stderr) == IF stderr # <<>> THEN Take(stderr, UiStderrCap) ELSE <<>>

\* 'stdout': stdout.strip()[:1000] (UI), stdout.strip() (CLI)
StoredStdout(k, stdout) ==
    IF k = "ui" THEN Take(Strip(stdout), AiStdoutCap) ELSE Strip(stdout)

\* 'stderr': stderr.strip()[:500] (UI), stderr.strip() (CLI)
StoredStderr(k, stderr) ==
    IF k = "ui" THEN Take(Strip(stderr), AiStderrCap) ELSE Strip(stderr)

\* IsSuccess taking the exit code 1 for a success too
IsSuccessLenient(exit_code) == exit_code \in {0, 1}

\* exit_code == 0
IsSuccess(exit_code) == exit_code = 0

\* the result dict of an executed command
ExecutedResult(k, cmd, o) ==
    [command |-> cmd, success |-> IsSuccess(o.exit_code),
     stdout |-> StoredStdout(k, o.stdout), stderr |-> StoredStderr(k, o.stderr),
     exit_code |-> o.exit_code]

\* the result dict the CLI assistant stores for a match that does not parse
ParseFailureResult(json_str, text) ==
    [command |-> json_str, success |-> FALSE, stdout |-> <<>>,
     stderr |-> Cat(JsonParseError, text), exit_code |-> -1]

\* f"JSON parse error: {str(e)[:100]}"
ParseErrorStderr(text) == Cat(JsonParseError, Take(text, CallbackErrorCap))

\* f"Execution error: {str(e)[:100]}"
ExecutionErrorStderr(text) == Cat(ExecutionError, Take(text, CallbackErrorCap))

(* What one invocation does that its caller or its collaborators can see.  *)
(* i is the number of the model request (1 planning, 2 interpretation) or  *)
(* the position of the directive among the matches.                        *)
Event(e, i, command, success, stdout, stderr) ==
    [e |-> e, i |-> i, command |-> command, success |-> success,
     stdout |-> stdout, stderr |-> stderr]

Request(n) == Event("request", n, <<>>, TRUE, <<>>, <<>>)
Reply(n, ok) == Event("reply", n, <<>>, ok, <<>>, <<>>)
ExecStart(i, cmd) == Event("exec_start", i, cmd, TRUE, <<>>, <<>>)
ExecEnd(i, cmd, o) ==
    Event("exec_end", i, cmd, o.exit_code = 0, o.stdout, o.stderr)
\* command_callback(command, success, stdout, stderr)
Report(i, command, success, stdout, stderr) ==
    Event("report", i, command, success, stdout, stderr)

\* str(result['success'])
PyBool(b) == IF b THEN PyTrue ELSE PyFalse

\* the lines one result adds to results_summary
SummaryEntry(k, r) ==
    CatAll(<<
        CommandLabel, r.command, Newline,
        SuccessLabel, PyBool(r.success), Newline,
        IF r.stdout # <<>>
        THEN IF k = "ui"
             THEN CatAll(<<OutputLabel, Take(r.stdout, SummaryStdoutCap), Ellipsis>>)
             ELSE CatAll(<<OutputLabel, r.stdout, Newline>>)
        ELSE <<>>,
        IF r.stderr # <<>>
        THEN IF k = "ui"
             THEN CatAll(<<ErrorLabel, Take(r.stderr, SummaryStderrCap), Ellipsis>>)
             ELSE CatAll(<<ErrorLabel, r.stderr, Newline>>)
        ELSE <<>>,
        ResultSeparator >>)

RECURSIVE SummaryEntries(_, _, _)
SummaryEntries(k, results, i) ==
    IF i > Len(results) THEN <<>>
    ELSE Cat(SummaryEntry(k, results[i]), SummaryEntries(k, results, i + 1))

\* results_summary as the loop over command_results leaves it
BuildSummary(k, results) == Cat(SummaryHeader, SummaryEntries(k, results, 1))

\* CapSummary without the cap: the summary is embedded whole
CapSummaryAbsent(k, s) == s

\* if len(results_summary) > 3000:
\*     results_summary = results_summary[:3000] + "\n... (results truncated)"
\* (the CLI assistant has no such cap)
CapSummary(k, s) ==
    IF k = "ui" /\ SLen(s) > MaxSummary
    THEN Cat(Take(s, MaxSummary), TruncationMarker)
    ELSE s

\* interpretation_prompt
InterpretationPrompt(k, user_input, summary) ==
    CatAll(<<IF k = "ui" THEN UiPromptHead ELSE CliPromptHead,
             user_input, PromptMid, summary>>)

\* the lines one result adds to execution_details (CLI)
DetailsEntry(r) ==
    IF r.success
    THEN CatAll(<<DetailsSucceeded, r.command, DetailsReset,
                  IF r.stdout # <<>>
                  THEN CatAll(<<DetailsOutput, r.stdout, DetailsReset>>)
                  ELSE <<>> >>)
    ELSE CatAll(<<DetailsFailed, r.command, DetailsReset,
                  IF r.stderr # <<>>
                  THEN CatAll(<<DetailsError, r.stderr, DetailsReset>>)
                  ELSE <<>> >>)

RECURSIVE DetailsEntries(_, _)
DetailsEntries(results, i) ==
    IF i > Len(results) THEN <<>>
    ELSE Cat(DetailsEntry(results[i]), DetailsEntries(results, i + 1))

\* execution_details (CLI)
ExecutionDetails(results) ==
    CatAll(<<DetailsRule, DetailsTitle, DetailsEntries(results, 1)>>)

\* FinalReturn appending the execution details in the UI assistant too
FinalReturnWithDetails(k, final, results) ==
    Cat(final, ExecutionDetails(results))

\* what the invocation returns after the interpretation turn:
\* return final_response (UI), return final_response + execution_details (CLI)
FinalReturn(k, final, results) ==
    IF k = "ui" THEN final ELSE Cat(final, ExecutionDetails(results))

RECURSIVE LoopFrom(_, _, _, _, _)

\* LoopParseError leaving the loop at the match that does not parse
LoopParseErrorBreaks(k, cmds, i, results, tr, text) ==
    [at |-> "end", idx |-> Len(cmds) + 1,
     results |-> IF k = "ui" THEN results
                 ELSE Append(results, ParseFailureResult(cmds[i], text)),
     trace |-> IF k = "ui"
               THEN Append(tr, Report(i, cmds[i], FALSE, <<>>,
                                      ParseErrorStderr(text)))
               ELSE tr]

\* the match at position i does not parse, text being str(e)
LoopParseError(k, cmds, i, results, tr, text) ==
    IF k = "ui"
    THEN LoopFrom(k, cmds, i + 1, results,
                  Append(tr, Report(i, cmds[i], FALSE, <<>>,
                                    ParseErrorStderr(text))))
    ELSE LoopFrom(k, cmds, i + 1,
                  Append(results, ParseFailureResult(cmds[i], text)), tr)

\* LoopStep dispatching the execution of the match after this one along
\* with this one, without awaiting the first
LoopStepFanOut(k, cmds, i, results, tr, p) ==
    IF ~p.ok
    THEN LoopParseError(k, cmds, i, results, tr,
                        JsonErrorText(cmds[i], p.msg, p.pos))
    ELSE IF ~HasCmd(p.pairs)
    THEN LoopFrom(k, cmds, i + 1, results, tr)
    ELSE [at |-> "exec", idx |-> i, results |-> results,
          trace |-> IF i < Len(cmds)
                    THEN tr \o <<ExecStart(i, GetCmd(p.pairs)),
                                 ExecStart(i + 1, cmds[i + 1])>>
                    ELSE Append(tr, ExecStart(i, GetCmd(p.pairs)))]

\* one turn of the loop, p being json.loads of the match at position i
LoopStep(k, cmds, i, results, tr, p) ==
    IF ~p.ok
    THEN LoopParseError(k, cmds, i, results, tr,
                        JsonErrorText(cmds[i], p.msg, p.pos))
    ELSE IF ~HasCmd(p.pairs)
    THEN LoopFrom(k, cmds, i + 1, results, tr)
    ELSE [at |-> "exec", idx |-> i, results |-> results,
          trace |-> Append(tr, ExecStart(i, GetCmd(p.pairs)))]

\* LoopFrom passing over a match equal to an earlier one
LoopFromDistinct(k, cmds, i, results, tr) ==
    IF i > Len(cmds)
    THEN [at |-> "end", idx |-> i, results |-> results, trace |-> tr]
    ELSE IF \E j \in 1..(i - 1) : cmds[j] = cmds[i]
    THEN LoopFrom(k, cmds, i + 1, results, tr)
    ELSE LoopStep(k, cmds, i, results, tr, JsonLoads(cmds[i]))

\* LoopFrom leaving the loop once a result collected is a failure
LoopFromUntilFailure(k, cmds, i, results, tr) ==
    IF i > Len(cmds) \/ (\E j \in 1..Len(results) : ~results[j].success)
    THEN [at |-> "end", idx |-> i, results |-> results, trace |-> tr]
    ELSE LoopStep(k, cmds, i, results, tr, JsonLoads(cmds[i]))

\* The for loop over json_commands from position i up to the next remote
\* execution (at = "exec") or to its end (at = "end"): a match that does not
\* parse is reported (UI) or stored as a failed result (CLI), a match
\* without the cmd key is passed over.
LoopFrom(k, cmds, i, results, tr) ==
    IF i > Len(cmds)
    THEN [at |-> "end", idx |-> i, results |-> results, trace |-> tr]
    ELSE LoopStep(k, cmds, i, results, tr, JsonLoads(cmds[i]))

(***************************** state ***************************************)

VARIABLES
    kind,                   \* the class of the assistant: "ui" or "cli"
    conversation_history,   \* self.conversation_history
    pc,                     \* where the invocation stands: "idle", "planning",
                            \* "executing", "interpreting", "returned", "raised"
    mode,                   \* the method running: "async", "sync", "cli", "none"
    user_input,             \* the argument of the invocation
    response,               \* what the planning send returned
    json_commands,          \* the matches kept for the loop
    idx,                    \* the position in json_commands of the loop
    command_results,        \* command_results
    results_summary,        \* results_summary before the size cap
    interpretation_prompt,  \* interpretation_prompt
    request_messages,       \* data["messages"] of the latest model request
    completion,             \* the text of the latest completion of the model
    final_response,         \* what the interpretation send returned
    ret,                    \* what the invocation returned (pc = "returned")
    trace,                  \* the events of the invocation, in order
    runs,                   \* invocations started on this assistant
    connected,              \* OpenWrtManager.connected
    ssh_client,             \* OpenWrtManager.ssh_client: "none", or the
                            \* state of the SSHClient it holds: "open",
                            \* "lost" (the connection broke), "closed",
                            \* "unconnected" (its connect failed)
    setup,                  \* the management operation of the manager that
                            \* is running or has returned, if any
    assistant,              \* RouterAIApp.assistant is not None
    is_processing,          \* RouterAIApp.is_processing
    tasks,                  \* the process_message coroutines of the app
    oracle,                 \* the answers the environment will give
    first                   \* what the first of two compared runs did

\* the state of the assistant
assistant_vars ==
    <<kind, conversation_history, pc, mode, user_input, response,
      json_commands, idx, command_results, results_summary,
      interpretation_prompt, request_messages, completion, final_response,
      ret, trace, runs>>

vars == <<kind, conversation_history, pc, mode, user_input, response,
          json_commands, idx, command_results, results_summary,
          interpretation_prompt, request_messages, completion, final_response,
          ret, trace, runs, connected, ssh_client, setup, assistant,
          is_processing, tasks, oracle, first>>

\* the state of the remote session
manager_vars == <<connected, ssh_client>>

\* the state of the application around the assistant
app_vars == <<assistant, is_processing, tasks>>

\* what a step of the assistant leaves alone
surroundings == <<manager_vars, app_vars, setup, oracle, first>>

\* a management operation op with its list of commands: executed is what
\* execute_command was called with and the exit code it gave, in order;
\* returned is "running", or the value returned, "True" or "False"
Setup(op, commands, executed, returned) ==
    [op |-> op, commands |-> commands, executed |-> executed,
     returned |-> returned]

\* no management operation was called
NoSetup == Setup("none", <<>>, <<>>, "none")

\* OpenWrtManager.__init__: self.ssh_client = None, self.connected = False
ManagerInit ==
    /\ connected = FALSE
    /\ ssh_client = "none"
    /\ setup = NoSetup

\* RouterAIApp.__init__: self.assistant = None, self.is_processing = False,
\* and no task yet
AppInit ==
    /\ assistant = FALSE
    /\ is_processing = FALSE
    /\ tasks = <<>>

\* no invocation yet
RunInit ==
    /\ pc = "idle"
    /\ mode = "none"
    /\ user_input = <<>>
    /\ response = <<>>
    /\ json_commands = <<>>
    /\ idx = 0
    /\ command_results = <<>>
    /\ results_summary = <<>>
    /\ interpretation_prompt = <<>>
    /\ request_messages = <<>>
    /\ completion = <<>>
    /\ final_response = <<>>
    /\ ret = <<>>
    /\ trace = <<>>
    /\ runs = 0

\* __init__: self.conversation_history = []
AssistantInit ==
    /\ kind \in {"ui", "cli"}
    /\ conversation_history = <<>>
    /\ RunInit

\* the assistant, its remote session and the application as constructed
Init ==
    /\ AssistantInit
    /\ ManagerInit
    /\ AppInit
    /\ oracle = <<>>
    /\ first = <<>>

(***************************** one invocation ******************************)
(* An action is the code of the invocation from one point where it waits   *)
(* for a collaborator (the model request, the remote execution) to the     *)
(* next: between two such points the invocation runs without interruption, *)
(* in the blocking variants because the thread blocks and in the           *)
(* cooperative variant because a coroutine only yields at an await.        *)
(***************************************************************************)

\* the entry of an invocation on the history h up to the planning request
Entry(m, u, h) ==
    /\ mode' = m
    /\ user_input' = u
    /\ conversation_history' = AppendUserTurn(kind, h, u)
    /\ request_messages' = conversation_history'
    /\ trace' = <<Request(1)>>
    /\ pc' = "planning"
    /\ response' = <<>>
    /\ json_commands' = <<>>
    /\ idx' = 0
    /\ command_results' = <<>>
    /\ results_summary' = <<>>
    /\ interpretation_prompt' = <<>>
    /\ completion' = <<>>
    /\ final_response' = <<>>
    /\ ret' = <<>>
    /\ runs' = runs + 1

\* the entry of the invocation on the history of the assistant
Begin(m, u) ==
    /\ pc \in {"idle", "returned"}
    /\ Entry(m, u, conversation_history)
    /\ UNCHANGED <<kind, surroundings>>

process_command_request_with_ui_async(u) == kind = "ui" /\ Begin("async", u)

process_command_request_with_ui(u) == kind = "ui" /\ Begin("sync", u)

process_command_request(u) == kind = "cli" /\ Begin("cli", u)

\* the interpretation prompt is appended as a user turn and requested
SendInterpretation(L, h, s, prompt) ==
    /\ pc' = "interpreting"
    /\ results_summary' = s
    /\ interpretation_prompt' = prompt
    /\ conversation_history' = AppendUserTurn(kind, h, prompt)
    /\ request_messages' = conversation_history'
    /\ trace' = Append(L.trace, Request(2))
    /\ UNCHANGED <<ret, mode>>

\* if command_results: the summary is built, capped and sent
Interpret(L, h, s) ==
    SendInterpretation(L, h, s,
        InterpretationPrompt(kind, user_input, CapSummary(kind, s)))

\* AfterLoop sending the interpretation request whether or not a result
\* was collected
AfterLoopAlwaysInterprets(L, h, resp) ==
    /\ idx' = L.idx
    /\ command_results' = L.results
    /\ IF L.at = "exec"
       THEN /\ pc' = "executing"
            /\ trace' = L.trace
            /\ conversation_history' = h
            /\ UNCHANGED <<results_summary, interpretation_prompt,
                           request_messages, ret, mode>>
       ELSE Interpret(L, h, BuildSummary(kind, L.results))

\* What follows the loop having come to L: the next remote execution is
\* awaited, or the interpretation request is sent, or the planning text is
\* returned.
AfterLoop(L, h, resp) ==
    /\ idx' = L.idx
    /\ command_results' = L.results
    /\ IF L.at = "exec"
       THEN /\ pc' = "executing"
            /\ trace' = L.trace
            /\ conversation_history' = h
            /\ UNCHANGED <<results_summary, interpretation_prompt,
                           request_messages, ret, mode>>
       ELSE IF L.results # <<>>
       THEN Interpret(L, h, BuildSummary(kind, L.results))
       ELSE /\ pc' = "returned"
            /\ ret' = resp
            /\ mode' = "none"
            /\ trace' = L.trace
            /\ conversation_history' = h
            /\ UNCHANGED <<results_summary, interpretation_prompt,
                           request_messages>>

\* the loop from position i on, and what follows it
Proceed(h, resp, cmds, i, results, tr) ==
    AfterLoop(LoopFrom(kind, cmds, i, results, tr), h, resp)

\* the planning send has returned resp: the matches are found and capped,
\* and the loop starts
PlanningTurn(resp, h, tr) ==
    /\ response' = resp
    /\ json_commands' = CapCommands(kind, FindAll(resp))
    /\ Proceed(h, resp, json_commands', 1, <<>>, tr)

\* the model answers the planning request with the completion t
PlanningTurnReplies(t) ==
    /\ pc = "planning"
    /\ completion' = t
    /\ PlanningTurn(ReturnedMessage(t),
                    AppendAssistantTurn(kind, conversation_history, t),
                    Append(trace, Reply(1, TRUE)))
    /\ UNCHANGED <<kind, user_input, final_response, runs>>
    /\ UNCHANGED surroundings

\* PlanningSendFailed storing the diagnostic of the failed send as an
\* assistant turn
PlanningSendFailedStored(f) ==
    IF f.raised
    THEN /\ pc' = "raised"
         /\ mode' = "none"
         /\ trace' = Append(trace, Reply(1, FALSE))
         /\ UNCHANGED <<conversation_history, response, json_commands,
                        idx, command_results, results_summary,
                        interpretation_prompt, request_messages, ret>>
    ELSE PlanningTurn(f.value,
                      AppendAssistantTurn(kind, conversation_history, f.value),
                      Append(trace, Reply(1, FALSE)))

\* the planning send has ended as f, [raised, value]
PlanningSendFailed(f) ==
    IF f.raised
    THEN /\ pc' = "raised"
         /\ mode' = "none"
         /\ trace' = Append(trace, Reply(1, FALSE))
         /\ UNCHANGED <<conversation_history, response, json_commands,
                        idx, command_results, results_summary,
                        interpretation_prompt, request_messages, ret>>
    ELSE PlanningTurn(f.value, conversation_history,
                      Append(trace, Reply(1, FALSE)))

\* the planning request fails with the exception e
PlanningTurnFails(e) ==
    /\ pc = "planning"
    /\ PlanningSendFailed(SendFailure(kind, e))
    /\ UNCHANGED <<kind, user_input, completion, final_response, runs>>
    /\ UNCHANGED surroundings

\* cmd = command['cmd'] of the match the loop stands at
CurrentCmd == GetCmd(JsonLoads(json_commands[idx]).pairs)

\* ExecutionEvents with the report to the callback left out of the
\* blocking variant
ExecutionEventsCooperativeOnly(cmd, o) ==
    IF kind = "ui" /\ mode = "async"
    THEN <<ExecEnd(idx, cmd, o),
           Report(idx, cmd, IsSuccess(o.exit_code),
                  SafeStdout(o.stdout), SafeStderr(o.stderr))>>
    ELSE <<ExecEnd(idx, cmd, o)>>

\* ExecutionEvents with the callback called before the execution has
\* returned
ExecutionEventsReportedAhead(cmd, o) ==
    IF kind = "ui"
    THEN <<Report(idx, cmd, IsSuccess(o.exit_code),
                  SafeStdout(o.stdout), SafeStderr(o.stderr)),
           ExecEnd(idx, cmd, o)>>
    ELSE <<ExecEnd(idx, cmd, o)>>

\* the events of an execution of cmd that returned o: its end and, in the
\* UI assistant, the report to the callback
ExecutionEvents(cmd, o) ==
    IF kind = "ui"
    THEN <<ExecEnd(idx, cmd, o),
           Report(idx, cmd, IsSuccess(o.exit_code),
                  SafeStdout(o.stdout), SafeStderr(o.stderr))>>
    ELSE <<ExecEnd(idx, cmd, o)>>

\* what execute_command returns: (stdout, stderr, exit_code)
Outcome(stdout, stderr, exit_code) ==
    [stdout |-> stdout, stderr |-> stderr, exit_code |-> exit_code]

\* if not self.connected: return "", "Not connected to router", 1
NotConnectedOutcome == Outcome(<<>>, NotConnectedText, 1)

\* ChannelFailure with the exit code of a success
ChannelFailureExitZero(text) ==
    Outcome(<<>>, Cat(CommandExecutionFailed, text), 0)

\* except Exception as e: return "", f"Command execution failed: {e}", 1
ChannelFailure(text) == Outcome(<<>>, Cat(CommandExecutionFailed, text), 1)

\* self.ssh_client.exec_command(command, timeout=timeout) is called
ChannelCall(i, cmd) == Event("channel", i, cmd, TRUE, <<>>, <<>>)

\* execute_command(cmd) has returned o after the channel calls cs: the
\* result is reported (UI) and stored, and the loop goes on
ExecutionReturned(cmd, cs, o) ==
    Proceed(conversation_history, response, json_commands, idx + 1,
            Append(command_results, ExecutedResult(kind, cmd, o)),
            (trace \o cs) \o ExecutionEvents(cmd, o))

\* execute_command(cmd) has called the channel and returned o
ChannelReturned(cmd, o) ==
    ExecutionReturned(cmd, <<ChannelCall(idx, cmd)>>, o)

\* self.router_manager.execute_command(cmd) on a connected session: the
\* channel executes the command and o = (stdout, stderr, exit_code) is read
ExecuteCommandReturns(o) ==
    /\ pc = "executing"
    /\ connected
    /\ ssh_client = "open"
    /\ ChannelReturned(CurrentCmd, o)
    /\ UNCHANGED <<kind, user_input, response, json_commands, completion,
                   final_response, runs>>
    /\ UNCHANGED surroundings

\* ExecuteCommandNotConnected without the check of self.connected: the
\* channel is called, and raises for want of a connection
ExecuteCommandUnchecked ==
    /\ pc = "executing"
    /\ ~connected
    /\ ChannelReturned(CurrentCmd, ChannelFailure(NotConnectedText))
    /\ UNCHANGED <<kind, user_input, response, json_commands, completion,
                   final_response, runs>>
    /\ UNCHANGED surroundings

\* self.router_manager.execute_command(cmd) on a session that does not
\* report connected: it returns before the try block
ExecuteCommandNotConnected ==
    /\ pc = "executing"
    /\ ~connected
    /\ ExecutionReturned(CurrentCmd, <<>>, NotConnectedOutcome)
    /\ UNCHANGED <<kind, user_input, response, json_commands, completion,
                   final_response, runs>>
    /\ UNCHANGED surroundings

\* self.router_manager.execute_command(cmd) on a session that reports
\* connected, the channel raising an exception with the text given (the
\* connection is lost, the command times out, the client never connected)
ExecuteCommandFails(text) ==
    /\ pc = "executing"
    /\ connected
    /\ ChannelReturned(CurrentCmd, ChannelFailure(text))
    /\ UNCHANGED <<kind, user_input, response, json_commands, completion,
                   final_response, runs>>
    /\ UNCHANGED surroundings

\* await asyncio.to_thread(...) raises an exception with the text given:
\* except Exception reports "command_error" and the loop goes on
WorkerDispatchRaises(text) ==
    /\ pc = "executing"
    /\ mode = "async"
    /\ Proceed(conversation_history, response, json_commands, idx + 1,
               command_results,
               trace \o <<Event("exec_raise", idx, CurrentCmd, FALSE, <<>>, <<>>),
                          Report(idx, CommandErrorName, FALSE, <<>>,
                                 ExecutionErrorStderr(text))>>)
    /\ UNCHANGED <<kind, user_input, response, json_commands, completion,
                   final_response, runs>>
    /\ UNCHANGED surroundings

\* the model answers the interpretation request with the completion t
InterpretationTurnReplies(t) ==
    /\ pc = "interpreting"
    /\ completion' = t
    /\ conversation_history' = AppendAssistantTurn(kind, conversation_history, t)
    /\ final_response' = ReturnedMessage(t)
    /\ ret' = FinalReturn(kind, final_response', command_results)
    /\ trace' = Append(trace, Reply(2, TRUE))
    /\ pc' = "returned"
    /\ mode' = "none"
    /\ UNCHANGED <<kind, user_input, response, json_commands, idx,
                   command_results, results_summary, interpretation_prompt,
                   request_messages, runs>>
    /\ UNCHANGED surroundings

\* the interpretation send has ended as f, [raised, value]
InterpretationSendFailed(f) ==
    /\ pc' = IF f.raised THEN "raised" ELSE "returned"
    /\ final_response' = f.value
    /\ ret' = IF f.raised THEN <<>>
              ELSE FinalReturn(kind, f.value, command_results)

\* the interpretation request fails with the exception e
InterpretationTurnFails(e) ==
    /\ pc = "interpreting"
    /\ InterpretationSendFailed(SendFailure(kind, e))
    /\ trace' = Append(trace, Reply(2, FALSE))
    /\ mode' = "none"
    /\ UNCHANGED <<kind, conversation_history, user_input, response,
                   json_commands, idx, command_results, results_summary,
                   interpretation_prompt, request_messages, completion, runs>>
    /\ UNCHANGED surroundings

(***************************** the remote session *************************)

\* OpenWrtManager.connect succeeds: a new SSHClient is held, its connect
\* returns, self.connected = True
ConnectSucceeds ==
    /\ ssh_client' = "open"
    /\ connected' = TRUE
    /\ UNCHANGED <<assistant_vars, app_vars, setup, oracle, first>>

\* OpenWrtManager.connect fails: a new SSHClient is held, its connect
\* raises, and self.connected is left as it was
ConnectFails ==
    /\ ssh_client' = "unconnected"
    /\ UNCHANGED connected
    /\ UNCHANGED <<assistant_vars, app_vars, setup, oracle, first>>

\* OpenWrtManager.disconnect: if self.ssh_client: close it,
\* self.connected = False
Disconnect ==
    /\ IF ssh_client # "none"
       THEN ssh_client' = "closed" /\ connected' = FALSE
       ELSE UNCHANGED manager_vars
    /\ UNCHANGED <<assistant_vars, app_vars, setup, oracle, first>>

\* the connection of the SSHClient breaks: the manager is not told, and
\* every call of the channel raises from now on
ConnectionLost ==
    /\ ssh_client = "open"
    /\ ssh_client' = "lost"
    /\ UNCHANGED connected
    /\ UNCHANGED <<assistant_vars, app_vars, setup, oracle, first>>

(************************ management operations ****************************)
(* setup_usb_storage and setup_wireless_client_mode of OpenWrtManager: a   *)
(* fixed list of commands, each given to execute_command, which blocks     *)
(* until the router has answered.  A command is the list of the parts of   *)
(* its text.                                                               *)
(***************************************************************************)

\* the arguments of the operations
MountPoint == "/mnt/usb"
Ssid == "ssid"
Password == "password"
Encryption == "psk2"

\* commands = [...] of setup_usb_storage(mount_point)
UsbStorageCommands(mount_point) ==
    << <<"opkg update">>,
       <<"opkg install block-mount kmod-fs-ext4 kmod-usb-storage e2fsprogs">>,
       <<"mkdir -p ", mount_point>>,
       <<"block detect > /etc/config/fstab">>,
       <<"uci set fstab.@mount[0].target='", mount_point, "'">>,
       <<"uci set fstab.@mount[0].enabled='1'">>,
       <<"uci commit fstab">>,
       <<"/etc/init.d/fstab enable">>,
       <<"/etc/init.d/fstab start">> >>

\* commands = [...] of setup_wireless_client_mode(ssid, password, encryption)
WirelessClientCommands(ssid, password, encryption) ==
    << <<"uci set wireless.@wifi-device[0].disabled='0'">>,
       <<"uci delete wireless.@wifi-iface[0]">>,
       <<"uci add wireless wifi-iface">>,
       <<"uci set wireless.@wifi-iface[0].device='radio0'">>,
       <<"uci set wireless.@wifi-iface[0].network='wwan'">>,
       <<"uci set wireless.@wifi-iface[0].mode='sta'">>,
       <<"uci set wireless.@wifi-iface[0].ssid='", ssid, "'">>,
       <<"uci set wireless.@wifi-iface[0].encryption='", encryption, "'">>,
       <<"uci set wireless.@wifi-iface[0].key='", password, "'">>,
       <<"uci set network.wwan='interface'">>,
       <<"uci set network.wwan.proto='dhcp'">>,
       <<"uci add firewall forwarding">>,
       <<"uci set firewall.@forwarding[-1].src='wwan'">>,
       <<"uci set firewall.@forwarding[-1].dest='lan'">>,
       <<"uci add_list firewall.@zone[1].network='wwan'">>,
       <<"uci commit">>,
       <<"/etc/init.d/network restart">>,
       <<"wifi reload">> >>

\* one call of execute_command: the command and the exit code returned
Executed(command, exit_code) == [command |-> command, exit_code |-> exit_code]

\* the operation s has entered its loop: for cmd in commands, and waits in
\* execute_command for its next command
InLoop(s) == s.returned = "running"

\* the command the loop of s stands at
LoopCommand(s) == s.commands[Len(s.executed) + 1]

\* AfterCommand going on with the loop whatever the exit code, and
\* returning False after the last command if one of them failed
AfterCommandToTheEnd(s, exit_code) ==
    LET executed == Append(s.executed, Executed(LoopCommand(s), exit_code))
    IN  IF Len(executed) < Len(s.commands)
        THEN Setup(s.op, s.commands, executed, "running")
        ELSE IF \E j \in 1..Len(executed) : executed[j].exit_code # 0
        THEN Setup(s.op, s.commands, executed, "False")
        ELSE Setup(s.op, s.commands, executed, "True")

\* execute_command(cmd) has returned exit_code to the loop of s:
\* if exit_code != 0: return False; after the last command: return True
AfterCommand(s, exit_code) ==
    LET executed == Append(s.executed, Executed(LoopCommand(s), exit_code))
    IN  IF exit_code # 0
        THEN Setup(s.op, s.commands, executed, "False")
        ELSE IF Len(executed) < Len(s.commands)
        THEN Setup(s.op, s.commands, executed, "running")
        ELSE Setup(s.op, s.commands, executed, "True")

\* an operation is called with its list of commands, and waits in
\* execute_command for the first
SetupCalled(op, commands) ==
    /\ setup.op = "none"
    /\ setup' = Setup(op, commands, <<>>, "running")
    /\ UNCHANGED <<assistant_vars, manager_vars, app_vars, oracle, first>>

setup_usb_storage ==
    SetupCalled("setup_usb_storage", UsbStorageCommands(MountPoint))

setup_wireless_client_mode ==
    SetupCalled("setup_wireless_client_mode",
                WirelessClientCommands(Ssid, Password, Encryption))

\* execute_command of the loop returns o
SetupCommandReturned(o) ==
    /\ InLoop(setup)
    /\ setup' = AfterCommand(setup, o.exit_code)
    /\ UNCHANGED <<assistant_vars, manager_vars, app_vars, oracle, first>>

\* the router ran the command and the channel gave its exit code
SetupCommandReturns(exit_code) ==
    /\ connected
    /\ ssh_client = "open"
    /\ SetupCommandReturned(Outcome(<<>>, <<>>, exit_code))

\* if not self.connected: return "", "Not connected to router", 1
SetupCommandNotConnected ==
    /\ ~connected
    /\ SetupCommandReturned(NotConnectedOutcome)

\* the channel raises: except Exception returns exit code 1
SetupCommandFails(text) ==
    /\ connected
    /\ ssh_client # "open"
    /\ SetupCommandReturned(ChannelFailure(text))

(***************************** the application *****************************)
(* RouterAIApp around one assistant.  A handler of the application runs    *)
(* without interruption up to its first await that suspends; a coroutine   *)
(* awaited by a handler runs within it, while one passed to                *)
(* asyncio.create_task starts only when the event loop next runs it.  The  *)
(* run inside process_message is taken as far as its planning request and *)
(* the answer to it.                                                       *)
(***************************************************************************)

\* what the assistant holds besides its conversation_history
run_vars ==
    <<kind, pc, mode, user_input, response, json_commands, idx,
      command_results, results_summary, interpretation_prompt,
      request_messages, completion, final_response, ret, trace, runs>>

ShowSystemInfo ==
    Lit(<<
        "s", "h", "o", "w", " ", "s", "y", "s", "t", "e", "m", " ", "i",
        "n", "f", "o" >>)

ListInstalledPackages ==
    Lit(<<
        "l", "i", "s", "t", " ", "i", "n", "s", "t", "a", "l", "l", "e",
        "d", " ", "p", "a", "c", "k", "a", "g", "e", "s" >>)

CheckMemoryUsage ==
    Lit(<<
        "c", "h", "e", "c", "k", " ", "m", "e", "m", "o", "r", "y", " ",
        "u", "s", "a", "g", "e" >>)

\* the messages of the menu buttons and of the shortcut actions
MenuMessages == {ShowSystemInfo, ListInstalledPackages, CheckMemoryUsage}

\* a process_message coroutine: "scheduled" as a task that has not
\* started, "running" from its first line to its finally block, "done"
Task(u, state) == [user_input |-> u, state |-> state]

\* the process_message coroutines between their first line and their end
Running == {t \in 1..Len(tasks) : tasks[t].state = "running"}

\* process_message from its first line to the await of the planning
\* request: self.is_processing = True, and the assistant appends the user
\* turn to its conversation_history
ProcessMessageAwaits(u, ts) ==
    /\ is_processing' = TRUE
    /\ tasks' = ts
    /\ conversation_history' = AppendUserTurn(kind, conversation_history, u)

\* process_message while self.assistant is None: the call of the run
\* raises AttributeError before any await, except Exception shows it, and
\* finally: self.is_processing = False
ProcessMessageWithoutAssistant(ts) ==
    /\ is_processing' = FALSE
    /\ tasks' = ts
    /\ UNCHANGED conversation_history

\* process_message of the task t of ts from its first line to where it
\* first stops
ProcessMessageStarts(u, ts, t) ==
    IF assistant
    THEN ProcessMessageAwaits(u, [ts EXCEPT ![t].state = "running"])
    ELSE ProcessMessageWithoutAssistant([ts EXCEPT ![t].state = "done"])

\* on_key, Enter: refused while self.is_processing and while there is no
\* assistant, else process_message is awaited and runs within the handler
KeyEnter(u) ==
    /\ IF is_processing \/ ~assistant
       THEN UNCHANGED <<is_processing, tasks, conversation_history>>
       ELSE ProcessMessageStarts(u, Append(tasks, Task(u, "scheduled")),
                                 Len(tasks) + 1)
    /\ UNCHANGED <<assistant, run_vars, manager_vars, setup, oracle, first>>

\* on_button_pressed of a menu button: refused while self.is_processing,
\* else process_message is awaited and runs within the handler
ButtonPressed(u) ==
    /\ IF is_processing
       THEN UNCHANGED <<is_processing, tasks, conversation_history>>
       ELSE ProcessMessageStarts(u, Append(tasks, Task(u, "scheduled")),
                                 Len(tasks) + 1)
    /\ UNCHANGED <<assistant, run_vars, manager_vars, setup, oracle, first>>

\* action_show_router_info, action_show_packages, action_show_memory:
\* if not self.is_processing: asyncio.create_task(self.process_message(u))
ShortcutAction(u) ==
    /\ IF is_processing
       THEN UNCHANGED tasks
       ELSE tasks' = Append(tasks, Task(u, "scheduled"))
    /\ UNCHANGED <<is_processing, conversation_history>>
    /\ UNCHANGED <<assistant, run_vars, manager_vars, setup, oracle, first>>

\* the event loop starts the task t: process_message runs from its first
\* line
TaskStarts(t) ==
    /\ t \in 1..Len(tasks)
    /\ tasks[t].state = "scheduled"
    /\ ProcessMessageStarts(tasks[t].user_input, tasks, t)
    /\ UNCHANGED <<assistant, run_vars, manager_vars, setup, oracle, first>>

\* the run of the process_message t is answered by the completion c,
\* which holds no directive, and returns; finally: self.is_processing = False
RunCompletes(t, c) ==
    /\ t \in Running
    /\ conversation_history' = AppendAssistantTurn(kind, conversation_history, c)
    /\ tasks' = [tasks EXCEPT ![t].state = "done"]
    /\ is_processing' = FALSE
    /\ UNCHANGED <<assistant, run_vars, manager_vars, setup, oracle, first>>

\* RunFails without the finally block: self.is_processing is left as it is
RunFailsFlagKept(t) ==
    /\ t \in Running
    /\ tasks' = [tasks EXCEPT ![t].state = "done"]
    /\ UNCHANGED is_processing
    /\ UNCHANGED conversation_history
    /\ UNCHANGED <<assistant, run_vars, manager_vars, setup, oracle, first>>

\* the request of the run of the process_message t fails: nothing is
\* appended, the diagnostic is shown; finally: self.is_processing = False
RunFails(t) ==
    /\ t \in Running
    /\ tasks' = [tasks EXCEPT ![t].state = "done"]
    /\ is_processing' = FALSE
    /\ UNCHANGED conversation_history
    /\ UNCHANGED <<assistant, run_vars, manager_vars, setup, oracle, first>>

(***************************** the environment *****************************)
(* What the collaborators may answer: completions of the model, failures   *)
(* of the model request, results of a remote execution.                    *)
(***************************************************************************)

NDirectives == 7        \* directives in the longest plan
NMalformed == 3         \* malformed directives at the head of a mixed plan
LongReply == 2500       \* characters of prose in a long completion
LongCommand == 3500     \* characters of a long command
BigStdout == 1200       \* characters of a long standard output
BigStderr == 600        \* characters of a long standard error
LongError == 250        \* characters of a long exception text
MaxRuns == 3            \* invocations in one session
MaxTasks == 3           \* messages submitted to the application

UserText ==
    Lit(<<
        "c", "h", "e", "c", "k", " ", "m", "e", "m", "o", "r", "y", " ",
        "u", "s", "a", "g", "e" >>)

Prose ==
    Lit(<<
        "L", "e", "t", " ", "m", "e", " ", "c", "h", "e", "c", "k", ".", " " >>)

DirectiveOpen ==
    Lit(<<
        "{", "\"", "c", "m", "d", "\"", ":", " ", "\"" >>)

DirectiveClose ==
    Lit(<<
        "\"", "}" >>)

\* {"cmd": "<cmd>"}
Directive(cmd) == CatAll(<<DirectiveOpen, cmd, DirectiveClose>>)

\* a match that json.loads rejects
MalformedDirective ==
    Lit(<<
        "{", "\"", "c", "m", "d", "\"", ":", " ", "}" >>)

\* a match that parses and has no cmd key
KeylessDirective ==
    Lit(<<
        "{", "\"", "x", "\"", ":", " ", "\"", "c", "m", "d", "\"", "}" >>)

Space == Rep(" ", 1)

\* the i-th command of a plan: i characters, so that commands differ
CommandText(i) == Rep("a", i)

\* the directives for the commands from..to, in order
RECURSIVE DirectivesText(_, _)
DirectivesText(from, to) ==
    IF from > to THEN <<>>
    ELSE CatAll(<<Directive(CommandText(from)), Space,
                  DirectivesText(from + 1, to)>>)

RECURSIVE Repeated(_, _)
Repeated(s, n) == IF n <= 0 THEN <<>> ELSE Cat(s, Repeated(s, n - 1))

NoDirectiveText ==
    Lit(<<
        "A", "l", "l", " ", "g", "o", "o", "d", "." >>)

OneDirectiveText == Cat(Prose, Directive(CommandText(1)))

ManyDirectivesText == Cat(Prose, DirectivesText(1, NDirectives))

SameTwiceText ==
    CatAll(<<Directive(CommandText(1)), Space, Directive(CommandText(1))>>)

MalformedThenGoodText ==
    CatAll(<<Prose, MalformedDirective, Space, Directive(CommandText(1))>>)

MalformedOnlyText == Cat(Prose, MalformedDirective)

\* a match that does not parse between two directives
MalformedBetweenText ==
    CatAll(<<Directive(CommandText(1)), Space, MalformedDirective, Space,
             Directive(CommandText(2))>>)

KeylessThenGoodText ==
    CatAll(<<KeylessDirective, Space, Directive(CommandText(2))>>)

\* NMalformed malformed directives, then directives up to NDirectives matches
MixedText ==
    Cat(Repeated(Cat(MalformedDirective, Space), NMalformed),
        DirectivesText(1, NDirectives - NMalformed))

\* a directive after more prose than the history stores
LongReplyText == Cat(Rep("t", LongReply), Directive(CommandText(1)))

LongProseText == Rep("t", LongReply)

LongCommandText == Directive(Rep("a", LongCommand))

PlanTexts ==
    {NoDirectiveText, OneDirectiveText, ManyDirectivesText, SameTwiceText,
     MalformedThenGoodText, MalformedOnlyText, MalformedBetweenText,
     KeylessThenGoodText, MixedText,
     LongReplyText, LongProseText, LongCommandText}

InterpretationTexts == {NoDirectiveText, OneDirectiveText, LongProseText}

\* exceptions of the model request: a transport or status error, a reply
\* without the 'content' key, a reply whose content list is empty
TransportError == [type |-> "RequestException", text |-> Rep("e", LongError)]

ShapeError == [type |-> "KeyError", text |-> KeyErrorContent]

EmptyContentError ==
    [type |-> "IndexError",
     text |-> Lit(<<
        "l", "i", "s", "t", " ", "i", "n", "d", "e", "x", " ", "o", "u",
        "t", " ", "o", "f", " ", "r", "a", "n", "g", "e" >>)]

ApiErrors == {TransportError, ShapeError, EmptyContentError}

\* a short output, exit 0
ShortSuccess ==
    Outcome(
    Lit(<<
        "M", "e", "m", ":", " ", "5", "1", "2", "M", " ", "u", "s", "e",
        "d", "\n" >>),
    <<>>, 0)

\* long output and long error text with white space around them, exit 1
LongFailure ==
    Outcome(CatAll(<<Space, Rep("o", BigStdout), Newline>>),
            CatAll(<<Rep("e", BigStderr), Newline>>), 1)

\* nothing on standard output, a warning on standard error, exit 0
WarningSuccess ==
    Outcome(<<>>,
    Lit(<<
        "w", "a", "r", "n", "i", "n", "g", "\n" >>),
    0)

ExecOutcomes == {ShortSuccess, LongFailure, WarningSuccess}

\* the outcomes of an execution in a plan of many directives
PlanOutcomes == {ShortSuccess, LongFailure}

\* texts of an exception raised while the execution is awaited
WorkerErrors == {Rep("x", LongError)}

\* texts of an exception raised by the channel
ChannelErrors == {Rep("s", LongError)}

(***************************** specifications ******************************)

\* One invocation on a new assistant, with every answer of the environment.
NextRun ==
    \/ /\ pc = "idle"
       /\ \/ process_command_request_with_ui_async(UserText)
          \/ process_command_request_with_ui(UserText)
          \/ process_command_request(UserText)
    \/ \E t \in PlanTexts : PlanningTurnReplies(t)
    \/ \E e \in ApiErrors : PlanningTurnFails(e)
    \/ pc = "idle" /\ ConnectSucceeds
    \/ pc = "idle" /\ ConnectFails
    \/ pc = "idle" /\ Disconnect
    \/ pc = "executing" /\ ConnectionLost
    \/ \E o \in PlanOutcomes : ExecuteCommandReturns(o)
    \/ ExecuteCommandNotConnected
    \/ ssh_client # "open" /\ \E x \in ChannelErrors : ExecuteCommandFails(x)
    \/ \E x \in WorkerErrors : WorkerDispatchRaises(x)
    \/ \E t \in InterpretationTexts : InterpretationTurnReplies(t)
    \/ \E e \in ApiErrors : InterpretationTurnFails(e)

SpecRun == Init /\ [][NextRun]_vars

\* A session: up to MaxRuns invocations on one assistant, with few answers.
SessionTexts == {NoDirectiveText, OneDirectiveText}

Next ==
    \/ /\ runs < MaxRuns
       /\ \/ process_command_request_with_ui_async(UserText)
          \/ process_command_request_with_ui(UserText)
          \/ process_command_request(UserText)
    \/ \E t \in SessionTexts : PlanningTurnReplies(t)
    \/ \E e \in {TransportError} : PlanningTurnFails(e)
    \/ pc = "idle" /\ ssh_client = "none" /\ ConnectSucceeds
    \/ \E o \in ExecOutcomes : ExecuteCommandReturns(o)
    \/ ExecuteCommandNotConnected
    \/ \E x \in ChannelErrors : ExecuteCommandFails(x)
    \/ \E x \in WorkerErrors : WorkerDispatchRaises(x)
    \/ \E t \in SessionTexts : InterpretationTurnReplies(t)
    \/ \E e \in {TransportError} : InterpretationTurnFails(e)

Spec == Init /\ [][Next]_vars

\* The application after on_mount, with up to MaxTasks messages submitted
\* through its three entries: connect returned True and the assistant was
\* made, or it returned False and self.assistant is still None.
InitApp ==
    /\ AssistantInit
    /\ kind = "ui"
    /\ \/ assistant = TRUE /\ connected = TRUE /\ ssh_client = "open"
       \/ assistant = FALSE /\ connected = FALSE /\ ssh_client = "unconnected"
    /\ setup = NoSetup
    /\ is_processing = FALSE
    /\ tasks = <<>>
    /\ oracle = <<>>
    /\ first = <<>>

NextApp ==
    \/ Len(tasks) < MaxTasks /\ KeyEnter(UserText)
    \/ \E u \in MenuMessages : Len(tasks) < MaxTasks /\ ButtonPressed(u)
    \/ \E u \in MenuMessages : Len(tasks) < MaxTasks /\ ShortcutAction(u)
    \/ \E t \in 1..MaxTasks : TaskStarts(t)
    \/ \E t \in 1..MaxTasks : RunCompletes(t, NoDirectiveText)
    \/ \E t \in 1..MaxTasks : RunFails(t)

SpecApp == InitApp /\ [][NextApp]_vars

\* a process_message that has started comes to its end: the request of its
\* run is answered or fails within the 60 seconds of the ClientTimeout of
\* the session
ProcessMessageEnds(t) == RunCompletes(t, NoDirectiveText) \/ RunFails(t)

\* the steps of the application with one message for all its entries
NextAppOne ==
    \/ Len(tasks) < MaxTasks /\ KeyEnter(CheckMemoryUsage)
    \/ Len(tasks) < MaxTasks /\ ButtonPressed(CheckMemoryUsage)
    \/ Len(tasks) < MaxTasks /\ ShortcutAction(CheckMemoryUsage)
    \/ \E t \in 1..MaxTasks : TaskStarts(t)
    \/ \E t \in 1..MaxTasks : RunCompletes(t, NoDirectiveText)
    \/ \E t \in 1..MaxTasks : RunFails(t)

\* The application on an event loop that runs every task it was given, and
\* a model service that answers or times out.
FairSpecApp ==
    /\ InitApp
    /\ [][NextAppOne]_vars
    /\ \A t \in 1..MaxTasks : WF_vars(TaskStarts(t))
    /\ \A t \in 1..MaxTasks : WF_vars(ProcessMessageEnds(t))

\* The two variants of the UI assistant side by side: the cooperative
\* variant runs on the history and with the answers of the oracle, what it
\* did is kept in first, and the blocking variant runs on the same history
\* with the same answers.  The worker of the cooperative variant returns.
Answer(ok, text, error) == [ok |-> ok, text |-> text, error |-> error]

NoError == [type |-> "none", text |-> <<>>]

\* the answers to a model request: completions and failures
PlanAnswers ==
    {Answer(TRUE, t, NoError) :
        t \in {NoDirectiveText, ManyDirectivesText, MalformedBetweenText,
               KeylessThenGoodText, LongReplyText}}
    \cup {Answer(FALSE, <<>>, e) : e \in ApiErrors}

InterpretationAnswers ==
    {Answer(TRUE, t, NoError) : t \in {NoDirectiveText, LongProseText}}
    \cup {Answer(FALSE, <<>>, TransportError)}

\* a history of MaxHistory - 1 turns, as four answered runs and a failed
\* request leave it
PriorHistory ==
    [n \in 1..(MaxHistory - 1) |->
        IF n % 2 = 1 THEN Turn("user", UserText)
        ELSE Turn("assistant", NoDirectiveText)]

Oracles ==
    [history : {<<>>, PriorHistory},
     plan : PlanAnswers,
     outs : [1..MaxCommands -> PlanOutcomes],
     interp : InterpretationAnswers]

\* what a run did that its caller and its collaborators can see
Observation ==
    [trace |-> trace, ret |-> ret, history |-> conversation_history,
     request_messages |-> request_messages,
     interpretation_prompt |-> interpretation_prompt]

\* the cooperative run has returned: what it did is kept, and
\* process_command_request_with_ui is called with the same input on the
\* same history
ReplayBlocking ==
    /\ pc = "returned"
    /\ first = <<>>
    /\ first' = Observation
    /\ Entry("sync", user_input, oracle.history)
    /\ UNCHANGED <<kind, manager_vars, app_vars, setup, oracle>>

InitTwin ==
    /\ oracle \in Oracles
    /\ first = <<>>
    /\ kind = "ui"
    /\ conversation_history = oracle.history
    /\ RunInit
    /\ connected = TRUE
    /\ ssh_client = "open"
    /\ setup = NoSetup
    /\ AppInit

NextTwin ==
    \/ pc = "idle" /\ process_command_request_with_ui_async(UserText)
    \/ oracle.plan.ok /\ PlanningTurnReplies(oracle.plan.text)
    \/ ~oracle.plan.ok /\ PlanningTurnFails(oracle.plan.error)
    \/ pc = "executing" /\ ExecuteCommandReturns(oracle.outs[idx])
    \/ oracle.interp.ok /\ InterpretationTurnReplies(oracle.interp.text)
    \/ ~oracle.interp.ok /\ InterpretationTurnFails(oracle.interp.error)
    \/ ReplayBlocking

SpecTwin == InitTwin /\ [][NextTwin]_vars

\* exit codes of a command on the router
ExitCodes == {0, 1, 127}

\* One management operation on a manager that was connected or not, the
\* connection breaking at any command.
NextSetup ==
    \/ setup.op = "none" /\ ssh_client = "none" /\ ConnectSucceeds
    \/ setup_usb_storage
    \/ setup_wireless_client_mode
    \/ InLoop(setup) /\ ConnectionLost
    \/ \E e \in ExitCodes : SetupCommandReturns(e)
    \/ SetupCommandNotConnected
    \/ \E x \in ChannelErrors : SetupCommandFails(x)

SpecSetup == Init /\ [][NextSetup]_vars

(***************************** properties **********************************)

\* the positions of the trace that hold an event of one of the types es
EventsOf(es) == {n \in 1..Len(trace) : trace[n].e \in es}

\* the events of a remote execution and of the reporter callback
ExecutionEventTypes == {"exec_start", "exec_end", "exec_raise"}

\* the directive-shaped matches of the planning text, in textual order
PlanMatches == FindAll(response)

\* json.loads of every match of ms
ParseAll(ms) == <<>> \o [m \in 1..Len(ms) |-> JsonLoads(ms[m])]

\* the m-th of the parsed matches is a directive: it parses and has cmd
IsDirective(parsed, m) == parsed[m].ok /\ HasCmd(parsed[m].pairs)

\* the loop over the matches has ended
LoopEnded == pc \in {"interpreting", "returned"} /\ Len(trace) >= 2

\* C1 (as claimed): in the UI assistant conversation_history never holds
\* more than 10 turns, after the append of a user turn and after the append
\* of an assistant turn alike.  It fails: the history is cut after the
\* user turn only, and the sixth completion in a row makes it 11 turns.
C1_HistoryAtMostTen ==
    kind = "ui" => Len(conversation_history) <= MaxHistory

\* every execution is of one of the first MaxCommands of the matches ms,
\* and nothing of a later match is executed or reported
WithinFirstFive(ms, parsed) ==
    /\ Cardinality(EventsOf({"exec_start"})) <= MaxCommands
    /\ \A n \in EventsOf(ExecutionEventTypes \cup {"report"}) :
         /\ trace[n].i \in 1..MaxCommands
         /\ trace[n].i <= Len(ms)
    /\ \A n \in EventsOf({"exec_start"}) :
         /\ IsDirective(parsed, trace[n].i)
         /\ trace[n].command = GetCmd(parsed[trace[n].i].pairs)
    /\ \A m \in (MaxCommands + 1)..Len(ms) :
         \A n \in 1..Len(trace) :
            /\ trace[n].command # ms[m]
            /\ IsDirective(parsed, m) =>
                  trace[n].command # GetCmd(parsed[m].pairs)

WithinFirstFiveOf(ms) == WithinFirstFive(ms, ParseAll(ms))

\* C2: one invocation of the UI assistant performs at most 5 remote
\* executions, each of them of one of the first 5 matches of the planning
\* text, and nothing of a match after the fifth is executed or reported.
C2_AtMostFiveExecutions == kind = "ui" => WithinFirstFiveOf(PlanMatches)

\* every one of the parsed matches is a directive, and there are more of
\* them than MaxCommands
MoreThanFiveDirectives(parsed) ==
    /\ Len(parsed) > MaxCommands
    /\ \A m \in 1..Len(parsed) : IsDirective(parsed, m)

\* C2 happens: a UI invocation whose planning text has more than 5
\* directives has executed 5 of them and gone on to the interpretation
C2_Witness ==
    /\ kind = "ui"
    /\ pc = "returned"
    /\ Cardinality(EventsOf({"exec_end"})) = MaxCommands
    /\ MoreThanFiveDirectives(ParseAll(PlanMatches))

\* the executions follow the order of the matches ms, each ended before
\* the next starts, and after the loop every directive kept has been
\* executed once
InTextualOrder(ms, parsed) ==
    /\ \A n \in EventsOf({"exec_start"}) :
         /\ trace[n].i \in 1..Len(ms)
         /\ IsDirective(parsed, trace[n].i)
         /\ trace[n].command = GetCmd(parsed[trace[n].i].pairs)
         /\ \A n2 \in EventsOf({"exec_start"}) :
              n < n2 =>
                /\ trace[n].i < trace[n2].i
                /\ \E e \in EventsOf({"exec_end", "exec_raise"}) :
                     n < e /\ e < n2 /\ trace[e].i = trace[n].i
    /\ LoopEnded =>
         \A m \in 1..Len(ms) :
            (IsDirective(parsed, m) /\ (kind = "ui" => m <= MaxCommands)) =>
                Cardinality({n \in EventsOf({"exec_start"}) :
                                trace[n].i = m}) = 1

InTextualOrderOf(ms) == InTextualOrder(ms, ParseAll(ms))

\* C3: the remote executions of one run are issued in the textual order of
\* their directives, each ended before the next starts, and every
\* directive kept for the loop is executed, a repeated one as often as it
\* appears.
C3_ExecutionOrder == InTextualOrderOf(PlanMatches)

\* two equal matches
SameTwice(ms) == Len(ms) = 2 /\ ms[1] = ms[2]

\* C3 happens: a planning text holding the same directive twice has had
\* both executed
C3_Witness ==
    /\ LoopEnded
    /\ Cardinality(EventsOf({"exec_end"})) = 2
    /\ SameTwice(PlanMatches)

\* C4: a run whose planning text holds no directive-shaped substring
\* returns the planning text, executes nothing, reports nothing and issues
\* no second model request.
C4_NoDirectives ==
    (Len(trace) >= 2 /\ pc # "raised" /\ PlanMatches = <<>>) =>
        /\ pc = "returned"
        /\ ret = response
        /\ trace[2].success => ret = completion
        /\ EventsOf(ExecutionEventTypes \cup {"report"}) = {}
        /\ Cardinality(EventsOf({"request"})) = 1
        /\ Len(trace) = 2

\* C4 happens: the model has answered in prose only and the run has ended
C4_Witness ==
    /\ pc = "returned"
    /\ Len(trace) = 2
    /\ trace[2].success
    /\ completion = LongProseText
    /\ ret = LongProseText

\* C5: one invocation issues at most two model requests, the planning
\* request first and an interpretation request only when a result was
\* collected; the reply to the interpretation request ends the run.
C5_AtMostTwoRequests ==
    /\ Cardinality(EventsOf({"request"})) <= 2
    /\ pc # "idle" => trace[1] = Request(1)
    /\ \A n \in EventsOf({"request"}) :
         n > 1 => /\ trace[n] = Request(2)
                  /\ command_results # <<>>
    /\ \A n \in EventsOf({"reply"}) :
         trace[n].i = 2 => /\ n = Len(trace)
                           /\ pc \in {"returned", "raised"}
    /\ pc = "interpreting" => trace[Len(trace)] = Request(2)

\* C5 happens: the interpretation reply held a directive and the run has
\* ended with two requests and the one execution of the planning text
C5_Witness ==
    /\ pc = "returned"
    /\ Cardinality(EventsOf({"request"})) = 2
    /\ trace[Len(trace)] = Reply(2, TRUE)
    /\ FindAll(completion) # <<>>
    /\ Cardinality(EventsOf({"exec_start"})) = 1

\* the run has executed a directive and has returned after a completion
\* of the interpretation request
ReturnedAfterInterpretation ==
    /\ pc = "returned"
    /\ EventsOf({"exec_end"}) # {}
    /\ trace[Len(trace)] = Reply(2, TRUE)

C7_ReporterCaps ==
    \A n \in EventsOf({"report"}) :
        /\ kind = "ui"
        /\ SLen(trace[n].stdout) <= UiStdoutCap
        /\ SLen(trace[n].stderr) <= UiStderrCap
        /\ trace[n - 1].e = "exec_end" =>
              /\ trace[n].i = trace[n - 1].i
              /\ trace[n].command = trace[n - 1].command
              /\ trace[n].success = trace[n - 1].success
              /\ trace[n].stdout = Take(trace[n - 1].stdout, UiStdoutCap)
              /\ trace[n].stderr = Take(trace[n - 1].stderr, UiStderrCap)

\* C7 happens: one run has reported a JSON parse error, an execution whose
\* outputs were longer than the caps, and an unexpected error
C7_Witness ==
    /\ \E n \in EventsOf({"report"}) :
          StartsWith(trace[n].stderr, JsonParseError)
    /\ \E n \in EventsOf({"report"}) :
          /\ trace[n - 1].e = "exec_end"
          /\ SLen(trace[n - 1].stdout) > UiStdoutCap
          /\ SLen(trace[n - 1].stderr) > UiStderrCap
          /\ SLen(trace[n].stdout) = UiStdoutCap
          /\ SLen(trace[n].stderr) = UiStderrCap
    /\ \E n \in EventsOf({"report"}) :
          /\ trace[n].command = CommandErrorName
          /\ StartsWith(trace[n].stderr, ExecutionError)

\* C8 (as claimed): every result embedded into the summary of the
\* interpretation prompt has a stored stdout of at most 1000 characters
\* and a stored stderr of at most 500.  It fails in the CLI assistant,
\* which stores the stripped outputs whole.
C8_StoredOutputCaps ==
    interpretation_prompt # <<>> =>
        \A i \in 1..Len(command_results) :
            /\ SLen(command_results[i].stdout) <= AiStdoutCap
            /\ SLen(command_results[i].stderr) <= AiStderrCap

\* what the interpretation prompt holds after its head, the user's text
\* and the blank line
EmbeddedSummary ==
    Drop(interpretation_prompt,
         SLen(UiPromptHead) + SLen(user_input) + SLen(PromptMid))

\* the text e is embedded for the summary s: s itself when it has at most
\* MaxSummary characters, else its first MaxSummary and the marker
EmbedsCapped(e, s) ==
    /\ interpretation_prompt = CatAll(<<UiPromptHead, user_input, PromptMid, e>>)
    /\ IF SLen(s) > MaxSummary
       THEN /\ e = Cat(Take(s, MaxSummary), TruncationMarker)
            /\ SLen(e) = MaxSummary + SLen(TruncationMarker)
       ELSE /\ e = s
            /\ ~EndsWith(e, TruncationMarker)

\* C9: the summary embedded in the interpretation prompt of the UI
\* assistant is the concatenated summary when that has at most 3000
\* characters, and else its first 3000 characters followed by the
\* truncation marker.
C9_SummaryCap ==
    (kind = "ui" /\ interpretation_prompt # <<>>) =>
        /\ results_summary = BuildSummary(kind, command_results)
        /\ Len(command_results) \in 1..MaxCommands
        /\ EmbedsCapped(EmbeddedSummary, results_summary)

\* C9 happens: the summary of five results was longer than 3000 characters
\* and the prompt with it has been sent
C9_Witness ==
    /\ kind = "ui"
    /\ pc = "interpreting"
    /\ Len(command_results) = MaxCommands
    /\ SLen(results_summary) > MaxSummary
    /\ EndsWith(interpretation_prompt, TruncationMarker)

Min(a, b) == IF a <= b THEN a ELSE b

\* the position in h of its last assistant turn, 0 when it has none
LastAssistantTurn(h) ==
    IF \E n \in 1..Len(h) : h[n].role = "assistant"
    THEN CHOOSE n \in 1..Len(h) :
            /\ h[n].role = "assistant"
            /\ \A m \in (n + 1)..Len(h) : h[m].role # "assistant"
    ELSE 0

\* the number of the latest model request that was answered by a
\* completion, 0 when none was
LastCompletedRequest ==
    IF \E n \in EventsOf({"reply"}) : trace[n].success
    THEN trace[CHOOSE n \in EventsOf({"reply"}) :
                 /\ trace[n].success
                 /\ \A m \in EventsOf({"reply"}) : trace[m].success => m <= n].i
    ELSE 0

\* the turn at position n of the history stores the head of the
\* completion c, and the call numbered r returned c whole
StoresHeadReturnsWhole(n, r, c) ==
    /\ n > 0
    /\ conversation_history[n].content = Take(c, Min(SLen(c), MaxStoredReply))
    /\ r = 1 => response = c
    /\ r = 2 => final_response = c

\* C10: in the UI assistant every stored assistant turn has at most 2000
\* characters and is the head of its completion, while the call that
\* stored it returned the completion whole.
C10_StoredReplyCap ==
    kind = "ui" =>
        /\ \A n \in 1..Len(conversation_history) :
              conversation_history[n].role = "assistant" =>
                  SLen(conversation_history[n].content) <= MaxStoredReply
        /\ LastCompletedRequest # 0 =>
              StoresHeadReturnsWhole(LastAssistantTurn(conversation_history),
                                     LastCompletedRequest, completion)

\* C10 happens: a completion longer than 2000 characters has been stored
\* cut and returned whole
C10_Witness ==
    /\ kind = "ui"
    /\ LastCompletedRequest = 1
    /\ SLen(completion) > MaxStoredReply
    /\ SLen(response) = SLen(completion)
    /\ SLen(conversation_history[LastAssistantTurn(conversation_history)].content)
          = MaxStoredReply

\* C12 (as claimed): a failure of the model request, a reply with an empty
\* content list included, never raises out of the send or out of the run,
\* in the CLI assistant and in both UI variants.  It fails: the CLI send
\* catches RequestException and KeyError only, and the IndexError of
\* response_data["content"][0] on an empty list leaves the run.
C12_NeverRaises == pc # "raised"

\* every execution of the run so far was refused: no call of the channel,
\* and the not-connected result returned, reported and stored as a failure
RefusedWithoutChannel ==
    /\ EventsOf({"channel"}) = {}
    /\ \A n \in EventsOf({"exec_end"}) :
         /\ trace[n].stdout = <<>>
         /\ trace[n].stderr = NotConnectedText
         /\ ~trace[n].success
    /\ \A n \in EventsOf({"report"}) : ~trace[n].success
    /\ \A j \in 1..Len(command_results) :
         /\ ~command_results[j].success
         /\ command_results[j].exit_code # 0
         /\ command_results[j].stdout = <<>>

\* every execution started has ended or raised, and the run has not
\* raised but on a failed model request
NoExecutionLeftOpen ==
    /\ \A n \in EventsOf({"exec_start"}) :
          \E e \in EventsOf({"exec_end", "exec_raise"}) :
              e > n /\ trace[e].i = trace[n].i
    /\ pc = "raised" => trace[Len(trace)].e = "reply"

\* C13: while the remote session does not report connected (never
\* connected, connect failed, disconnected), execute_command makes no call
\* of the SSH channel and returns an empty stdout, the stderr "Not
\* connected to router" and a non-zero exit code; the run reports every
\* directive as failed and goes on to its end.
C13_NotConnectedRefused ==
    ~connected =>
        /\ RefusedWithoutChannel
        /\ pc # "executing" => NoExecutionLeftOpen

\* C13 happens: after a disconnect a UI run of two directives has had both
\* refused and reported, and has returned
C13_Witness ==
    /\ ~connected
    /\ ssh_client = "closed"
    /\ kind = "ui"
    /\ pc = "returned"
    /\ Cardinality(EventsOf({"exec_end"})) >= 2
    /\ Cardinality(EventsOf({"report"})) >= 2
    /\ \A n \in EventsOf({"exec_end"}) : trace[n].stderr = NotConnectedText

\* the positions of the trace where the execution of the match m starts
AttemptsOf(m) == {n \in EventsOf({"exec_start"}) : trace[n].i = m}

\* the execution of the match m has failed: a non-zero exit code, the
\* not-connected result, an exception of the channel or of the worker
FailedAt(m) ==
    \E n \in EventsOf({"exec_end", "exec_raise"}) :
        trace[n].i = m /\ ~trace[n].success

\* m2 is the first directive after m among the parsed matches
NextDirective(parsed, m, m2) ==
    /\ m2 > m
    /\ IsDirective(parsed, m2)
    /\ \A j \in (m + 1)..(m2 - 1) : ~IsDirective(parsed, j)

\* no directive is attempted twice; after the loop each was attempted
\* once; and one that failed has been followed by the attempt of the next
EachAttemptedOnce(parsed) ==
    \A m \in 1..Len(parsed) :
        IsDirective(parsed, m) =>
            /\ Cardinality(AttemptsOf(m)) <= 1
            /\ LoopEnded => Cardinality(AttemptsOf(m)) = 1
            /\ FailedAt(m) =>
                  \A m2 \in (m + 1)..Len(parsed) :
                      NextDirective(parsed, m, m2) => AttemptsOf(m2) # {}

\* C14: within one run every well-formed directive among the matches kept
\* for the loop is attempted exactly once whatever became of the earlier
\* ones: the failure of one (non-zero exit, not connected, exception of
\* the channel or of the worker) neither holds back the next nor has the
\* failed one executed again.
C14_FailuresDoNotStopTheLoop == EachAttemptedOnce(ParseAll(json_commands))

\* C14 happens: the first directive failed, and the second was executed
\* after it and succeeded
C14_Witness ==
    /\ pc = "returned"
    /\ FailedAt(1)
    /\ Cardinality(AttemptsOf(1)) = 1
    /\ \E n \in EventsOf({"exec_end"}) : trace[n].i = 2 /\ trace[n].success

\* the results that come from an execution (a match that does not parse
\* is stored by the CLI assistant with the exit code -1)
ExecutedResults == SelectSeq(command_results, LAMBDA r : r.exit_code # -1)

\* how many of the events of the types es the trace holds up to position n
CountUpTo(es, n) == Cardinality({x \in EventsOf(es) : x <= n})

\* the execution ended at position n of the trace is stored as r: success
\* exactly when the exit code was 0, and reported so in the UI assistant
StoredAndReportedAs(n, r) ==
    /\ r.command = trace[n].command
    /\ r.success = trace[n].success
    /\ r.success <=> (r.exit_code = 0)
    /\ kind = "ui" =>
          /\ n < Len(trace)
          /\ trace[n + 1].e = "report"
          /\ trace[n + 1].command = trace[n].command
          /\ trace[n + 1].success = trace[n].success

\* success is exit_code == 0 in every result and in every report
SuccessFollowsExitCode ==
    /\ \A j \in 1..Len(command_results) :
          command_results[j].success <=> (command_results[j].exit_code = 0)
    /\ Len(ExecutedResults) = Cardinality(EventsOf({"exec_end"}))
    /\ \A n \in EventsOf({"exec_end"}) :
          StoredAndReportedAs(n, ExecutedResults[CountUpTo({"exec_end"}, n)])

RECURSIVE EntriesLength(_, _)
\* the length of the summary before the entry of the j-th result
EntriesLength(results, j) ==
    IF j <= 1 THEN SLen(SummaryHeader)
    ELSE EntriesLength(results, j - 1)
            + SLen(SummaryEntry(kind, results[j - 1]))

\* the text of the interpretation prompt after its head, the user's text
\* and the blank line
PromptSummary ==
    Drop(interpretation_prompt,
         SLen(IF kind = "ui" THEN UiPromptHead ELSE CliPromptHead)
            + SLen(user_input) + SLen(PromptMid))

\* how many characters of a text of length len at offset off the summary
\* keeps: all of them in the CLI assistant, those before MaxSummary in the UI
KeptOf(off, len) ==
    IF kind = "cli" \/ off + len <= MaxSummary THEN len
    ELSE IF off >= MaxSummary THEN 0
    ELSE MaxSummary - off

\* the prompt holds the entry e at the offset off of its summary, as far
\* as the cap of the summary reaches
EmbedsEntryAt(off, e) ==
    Take(Drop(PromptSummary, off), KeptOf(off, SLen(e)))
        = Take(e, KeptOf(off, SLen(e)))

\* the entry of a failed result says so
SaysFailed(r, e) ==
    StartsWith(e, CatAll(<<CommandLabel, r.command, Newline,
                           SuccessLabel, PyFalse, Newline>>))

\* the entry e of the failed result r is in the prompt at the offset off
FailureEmbedded(r, off, e) == SaysFailed(r, e) /\ EmbedsEntryAt(off, e)

\* the prompt of the interpretation request holds the entry of every
\* result of exit code 1
FailuresInterpreted ==
    \A j \in 1..Len(command_results) :
        command_results[j].exit_code = 1 =>
            FailureEmbedded(command_results[j],
                            EntriesLength(command_results, j),
                            SummaryEntry(kind, command_results[j]))

ParseFailureReported(ms, m) ==
    IF kind = "ui"
    THEN \E n \in EventsOf({"report"}) :
            /\ trace[n].i = m
            /\ trace[n].command = ms[m]
            /\ ~trace[n].success
            /\ trace[n].stdout = <<>>
            /\ StartsWith(trace[n].stderr, JsonParseError)
            /\ SLen(trace[n].stderr) > SLen(JsonParseError)
    ELSE \E j \in 1..Len(command_results) :
            /\ command_results[j].command = ms[m]
            /\ ~command_results[j].success
            /\ StartsWith(command_results[j].stderr, JsonParseError)
            /\ SLen(command_results[j].stderr) > SLen(JsonParseError)

\* the loop has gone past the position m of the matches
LoopPast(m) ==
    /\ pc \in {"executing", "interpreting", "returned"}
    /\ Len(trace) >= 2
    /\ idx > m

\* a match that does not parse is reported and not executed, and the
\* directives around it are executed
ParseFailuresPassedOver(ms, parsed) ==
    \A m \in 1..Len(ms) :
        (~parsed[m].ok /\ LoopPast(m)) =>
            /\ ParseFailureReported(ms, m)
            /\ \A n \in EventsOf(ExecutionEventTypes \cup {"channel"}) :
                  trace[n].i # m
            /\ \A m2 \in 1..Len(ms) :
                  (IsDirective(parsed, m2) /\ LoopPast(m2)) =>
                      AttemptsOf(m2) # {}

\* C16: a directive-shaped match that does not parse as JSON is reported
\* with success false and a description of the parse error, is not
\* executed, raises nothing out of the run, and does not keep any
\* well-formed directive of the same planning text, before or after it,
\* from being executed.
C16_ParseFailureReported ==
    /\ ParseFailuresPassedOver(json_commands, ParseAll(json_commands))
    /\ pc = "raised" => trace[Len(trace)].e = "reply"

\* the match m of the parsed matches does not parse, and a directive
\* before it and a directive after it were executed
FailureBetweenExecutions(parsed, m) ==
    /\ ~parsed[m].ok
    /\ \E n \in EventsOf({"exec_end"}) : trace[n].i < m
    /\ \E n \in EventsOf({"exec_end"}) : trace[n].i > m

\* C16 happens: a UI run has ended whose planning text held a match that
\* does not parse between two directives, both executed
C16_Witness ==
    /\ kind = "ui"
    /\ pc = "returned"
    /\ \E m \in 1..Len(json_commands) :
          FailureBetweenExecutions(ParseAll(json_commands), m)
    /\ \E n \in EventsOf({"report"}) :
          StartsWith(trace[n].stderr, JsonParseError)

\* C18 (as claimed): in the CLI assistant conversation_history is cut to
\* its 10 most recent turns after every append.  It fails: the CLI send
\* appends the user turn and the assistant turn and never cuts the list,
\* which holds 12 turns after three runs of one directive each.
C18_CliHistoryAtMostTen ==
    kind = "cli" => Len(conversation_history) <= MaxHistory

\* the match ms[m] has a failed result among the results collected, the
\* summary was built from them, and the interpretation request was sent
FailedResultInterpreted(ms, m) ==
    /\ \E j \in 1..Len(command_results) :
          command_results[j].command = ms[m] /\ ~command_results[j].success
    /\ results_summary = BuildSummary(kind, command_results)
    /\ Cardinality(EventsOf({"request"})) = 2

\* every match that does not parse has become a failed result that was
\* interpreted
ParseFailuresInterpreted(ms, parsed) ==
    \A m \in 1..Len(ms) : ~parsed[m].ok => FailedResultInterpreted(ms, m)

\* C19 (as claimed): every directive that fails to parse yields a failed
\* result that enters the results summary, and a run whose only directives
\* are parse failures still sends the interpretation request.  It fails in
\* the UI assistant, which reports the parse failure to the callback and
\* collects no result for it.
C19_ParseFailureInterpreted ==
    LoopEnded =>
        ParseFailuresInterpreted(json_commands, ParseAll(json_commands))

\* the executions dispatched and not yet ended (returned or raised)
InFlight ==
    Cardinality(EventsOf({"exec_start"}))
        - Cardinality(EventsOf({"exec_end", "exec_raise"}))

\* the execution dispatched at position n of the trace has ended before
\* any other is dispatched
AwaitedBeforeNext(n) ==
    \A n2 \in EventsOf({"exec_start"}) :
        n < n2 =>
            \E e \in EventsOf({"exec_end", "exec_raise"}) :
                n < e /\ e < n2 /\ trace[e].i = trace[n].i

\* C20: in the cooperative variant at most one remote execution of a run
\* is in flight at any time: the execution of a directive is dispatched
\* to the worker only after the worker call of the one before it has
\* returned (or raised), and it is in flight exactly while the run awaits it.
C20_OneExecutionInFlight ==
    mode = "async" =>
        /\ InFlight = (IF pc = "executing" THEN 1 ELSE 0)
        /\ \A n \in EventsOf({"exec_start"}) : AwaitedBeforeNext(n)

\* C20 happens: the cooperative variant awaits the execution of its third
\* directive, the two before it having ended
C20_Witness ==
    /\ mode = "async"
    /\ pc = "executing"
    /\ Cardinality(EventsOf({"exec_start"})) = 3
    /\ Cardinality(EventsOf({"exec_end", "exec_raise"})) = 2

\* C11 (as claimed): at most one process_message, one run on the shared
\* assistant, is in flight at any time, whatever the entry (Enter, menu
\* button, shortcut action) and the interleaving.  It fails: a shortcut
\* action tests is_processing and only schedules process_message, which
\* sets the flag when it starts, so that a second entry taken before the
\* task starts lets two runs be in flight on one conversation_history.
C11_OneRunInFlight == Cardinality(Running) <= 1

\* the sequence s begins with the sequence p
IsPrefix(p, s) == Len(p) <= Len(s) /\ SubSeq(s, 1, Len(p)) = p

C22_ReporterArgumentsBounded ==
    \A n \in EventsOf({"report"}) :
        /\ SLen(trace[n].command) <= UiStdoutCap
        /\ SLen(trace[n].stdout) <= UiStdoutCap
        /\ SLen(trace[n].stderr) <= UiStdoutCap

\* C25 (as claimed): in the UI assistant the messages of every model
\* request begin with a turn of role user, after any number of runs.  It
\* fails: the history is cut to its last 10 turns whatever their roles, and
\* once 11 turns that began with a user turn are cut, the messages sent
\* begin with an assistant turn.
C25_RequestBeginsWithUser ==
    (kind = "ui" /\ request_messages # <<>>) =>
        request_messages[1].role = "user"

\* C26 (as claimed): connected is true only if the most recent connect
\* succeeded and no disconnect followed, so that execute_command never
\* calls an SSH client that is not connected.  It fails: a connect that
\* fails after one that succeeded replaces the client and leaves connected
\* true.
C26_ConnectedMeansOpen == connected => ssh_client \in {"open", "lost"}

\* the positions of the trace where the callback is called for the match m
ReportsOf(m) == {n \in EventsOf({"report"}) : trace[n].i = m}

\* how often the callback is called for the m-th of the parsed matches:
\* once for a directive and for a match that does not parse, never for a
\* match without the cmd key
ReportsDue(parsed, m) ==
    IF parsed[m].ok /\ ~HasCmd(parsed[m].pairs) THEN 0 ELSE 1

\* the call of the callback at position r of the trace comes after the
\* end of the execution it reports, before the start of the execution of
\* any later match and before the interpretation request
InStream(r) ==
    /\ \A n \in EventsOf({"exec_start", "exec_end", "exec_raise"}) :
          /\ trace[n].i <= trace[r].i => n < r
          /\ trace[n].i > trace[r].i => r < n
    /\ \A q \in EventsOf({"request"}) : trace[q].i = 2 => r < q

\* the callback is called once for every match the loop has dealt with,
\* for no other, and each call is in its place
ReportedOnceInStream(parsed) ==
    /\ \A m \in 1..Len(parsed) :
          Cardinality(ReportsOf(m)) =
              (IF LoopPast(m) THEN ReportsDue(parsed, m) ELSE 0)
    /\ \A r \in EventsOf({"report"}) :
          /\ trace[r].i \in 1..Len(parsed)
          /\ InStream(r)

\* C21: the reporter callback is called exactly once for each directive
\* the loop has processed, and in stream: after the execution of that
\* directive has returned, before the execution of the next starts and
\* before the interpretation request is issued.
C21_ReportedOnceInStream ==
    kind = "ui" => ReportedOnceInStream(ParseAll(json_commands))

\* C21 happens: a UI run of five directives has made five calls of the
\* callback and has then sent the interpretation request
C21_Witness ==
    /\ kind = "ui"
    /\ pc = "interpreting"
    /\ Cardinality(EventsOf({"report"})) = MaxCommands
    /\ Cardinality(EventsOf({"exec_end"})) = MaxCommands
    /\ trace[Len(trace)] = Request(2)

\* the positions of the trace where execute_command ended with the
\* failure of the channel
ChannelFailures ==
    {n \in EventsOf({"exec_end"}) :
        StartsWith(trace[n].stderr, CommandExecutionFailed)}

\* the failure of the channel at position n of the trace came back as a
\* triple: no output, a description, a non-zero exit code, stored as the
\* failed result r
FailureReturned(n, r) ==
    /\ trace[n - 1].e = "channel"
    /\ trace[n].stdout = <<>>
    /\ SLen(trace[n].stderr) > SLen(CommandExecutionFailed)
    /\ ~trace[n].success
    /\ r.command = trace[n].command
    /\ ~r.success
    /\ r.exit_code # 0

\* every call of the channel is followed by the return of execute_command,
\* a failure of the channel is returned and stored as a failure, and the
\* directive after it is attempted
ChannelFailuresReturned(parsed) ==
    /\ \A n \in EventsOf({"channel"}) :
          /\ n < Len(trace)
          /\ trace[n + 1].e = "exec_end"
          /\ trace[n + 1].i = trace[n].i
    /\ \A n \in ChannelFailures :
          /\ FailureReturned(n, ExecutedResults[CountUpTo({"exec_end"}, n)])
          /\ \A m2 \in 1..Len(parsed) :
                NextDirective(parsed, trace[n].i, m2) => AttemptsOf(m2) # {}

\* C24: execute_command never raises: a failure of the channel while the
\* session reports connected (timeout, broken connection, exception while
\* reading) is returned as an empty stdout, a description in stderr and a
\* non-zero exit code; the run records success false and goes on with the
\* next directive.
C24_ChannelFailureReturned ==
    ChannelFailuresReturned(ParseAll(json_commands))

\* C24 happens: the connection broke during a run, the first directive
\* had succeeded, the channel failed for the ones after it, and the run
\* has ended
C24_Witness ==
    /\ pc = "returned"
    /\ ssh_client = "lost"
    /\ \E n \in EventsOf({"exec_end"}) : trace[n].i = 1 /\ trace[n].success
    /\ Cardinality(ChannelFailures) >= 2

\* the directives among the first n of the parsed matches
DirectivesAmong(parsed, n) ==
    {m \in 1..Min(n, Len(parsed)) : IsDirective(parsed, m)}

\* the executions of the run are as many as MaxCommands or as the
\* directives of the planning text, whichever is less
ExecutesUpToCapOfDirectives(parsed) ==
    Cardinality(EventsOf({"exec_start"})) =
        Min(MaxCommands, Cardinality(DirectivesAmong(parsed, Len(parsed))))

\* the executions of the run are as many as the directives among the
\* first MaxCommands matches
ExecutesDirectivesOfCappedMatches(parsed) ==
    Cardinality(EventsOf({"exec_start"})) =
        Cardinality(DirectivesAmong(parsed, MaxCommands))

\* C28 (as claimed): a run of the UI assistant executes min(5, w)
\* directives, w being the number of well-formed directives of the
\* planning text; matches that do not parse or lack the cmd key take none
\* of the 5 places.  It fails: the cut to 5 is made on the matches before
\* any is parsed.
C28_ExecutesMinFiveWellFormed ==
    (kind = "ui" /\ LoopEnded) =>
        ExecutesUpToCapOfDirectives(ParseAll(PlanMatches))

\* what the code does instead: the executions are the directives found
\* among the first 5 matches, a match that does not parse or lacks the cmd
\* key taking one of the 5 places
ExecutesWellFormedOfFirstFive ==
    (kind = "ui" /\ LoopEnded) =>
        ExecutesDirectivesOfCappedMatches(ParseAll(PlanMatches))

\* the model request n of the run was sent, was answered, failed
Requested(n) == \E x \in EventsOf({"request"}) : trace[x].i = n

Answered(n) == \E x \in EventsOf({"reply"}) : trace[x].i = n /\ trace[x].success

Refused(n) == \E x \in EventsOf({"reply"}) : trace[x].i = n /\ ~trace[x].success

\* the turns a model call leaves: the user turn of its request, and the
\* assistant turn of its completion if it was answered
TurnsOfCall(n, user_message, returned) ==
    IF ~Requested(n) THEN <<>>
    ELSE IF ~Answered(n) THEN <<Turn("user", user_message)>>
    ELSE <<Turn("user", user_message),
           Turn("assistant", IF kind = "ui" THEN TruncatedMessage(returned)
                             ELSE returned)>>

\* a planning request that failed is followed by no execution and no
\* second request
FailedPlanningEndsTheRun ==
    Refused(1) =>
        /\ EventsOf({"request", "exec_start", "channel", "exec_end",
                     "exec_raise", "report"}) = {1}
        /\ pc \in {"returned", "raised"}
        /\ command_results = <<>>

\* C29: over a run that started on an empty history, the history is the
\* user turn of each model request sent, each followed by one assistant
\* turn if and only if that request was answered: a failed model call
\* leaves its user turn alone.  A planning request that failed is followed
\* by no remote execution and no interpretation request (its diagnostic,
\* "API request failed: ..." or "Error ...", holds no directive).
C29_FailedCallLeavesUserTurnOnly ==
    /\ conversation_history =
          TurnsOfCall(1, user_input, response)
              \o TurnsOfCall(2, interpretation_prompt, final_response)
    /\ FailedPlanningEndsTheRun

\* C29 happens: the planning request of a UI run failed and the run has
\* returned its diagnostic
C29_Witness ==
    /\ kind = "ui"
    /\ pc = "returned"
    /\ trace = <<Request(1), Reply(1, FALSE)>>
    /\ Len(conversation_history) = 1
    /\ ret = response
    /\ ret # <<>>

\* the interpretation request of a run failed after its planning request
\* was answered: three turns are left
InterpretationFailedAfterPlan ==
    /\ pc = "returned"
    /\ Answered(1)
    /\ Refused(2)
    /\ Len(conversation_history) = 3

\* the turns that the events of tr appended: one for each request sent,
\* one for each request answered
TurnsAppendedBy(tr) ==
    Cardinality({n \in 1..Len(tr) :
                    \/ tr[n].e = "request"
                    \/ tr[n].e = "reply" /\ tr[n].success})

\* the turns appended in a step: those of the events the step added to the
\* trace, which starts again at the entry of each run
AppendedInStep ==
    IF Len(trace') >= Len(trace)
    THEN TurnsAppendedBy(trace') - TurnsAppendedBy(trace)
    ELSE TurnsAppendedBy(trace')

\* h2 is h1 with some of its oldest turns removed and a turns appended:
\* what h2 holds before its last a turns is the end of h1, in its order
\* and unaltered
SuffixThenAppended(h1, h2, a) ==
    /\ a <= Len(h2)
    /\ Len(h2) - a <= Len(h1)
    /\ \A j \in 1..(Len(h2) - a) : h2[j] = h1[Len(h1) - (Len(h2) - a) + j]

\* C23: every step of the UI assistant leaves in conversation_history a
\* contiguous end of the history it had, in the same order and unaltered,
\* followed by the turns the step appended; so the history is always a
\* contiguous suffix of the sequence of all turns ever appended, and a
\* trim removes the oldest turns only.
C23_HistoryIsSuffixOfAppended ==
    [][kind = "ui" =>
          SuffixThenAppended(conversation_history, conversation_history',
                             AppendedInStep)]_vars

\* C23 happens: the history of the UI assistant was cut, its first user
\* turn is gone and the turn that followed it is now the oldest
C23_Witness ==
    /\ kind = "ui"
    /\ pc = "interpreting"
    /\ Len(conversation_history) = MaxHistory
    /\ conversation_history[1].role = "assistant"
    /\ conversation_history[MaxHistory] = Turn("user", interpretation_prompt)

\* the process_message coroutines that have come to their end
Finished == {t \in 1..Len(tasks) : tasks[t].state = "done"}

\* the process_message t comes to its end in this step
Finishes(t) ==
    /\ t \in 1..Len(tasks')
    /\ tasks'[t].state = "done"
    /\ t \in 1..Len(tasks) => tasks[t].state # "done"

EndedWithoutAssistant ==
    /\ ~assistant
    /\ ~is_processing
    /\ Finished # {}

\* the calls of execute_command made by the operation s are its commands
\* from the first on, in the order of the list, none left out or repeated
ExecutedInListedOrder(s) ==
    /\ Len(s.executed) <= Len(s.commands)
    /\ \A j \in 1..Len(s.executed) : s.executed[j].command = s.commands[j]

\* no command of s was executed after one whose exit code was not 0
StoppedAtFirstFailure(s) ==
    \A j \in 1..(Len(s.executed) - 1) : s.executed[j].exit_code = 0

\* the last command executed by s exited with a code other than 0
LastFailed(s) ==
    s.executed # <<>> /\ s.executed[Len(s.executed)].exit_code # 0

\* every command of the list of s was executed and exited 0
AllExitedZero(s) ==
    /\ Len(s.executed) = Len(s.commands)
    /\ \A j \in 1..Len(s.executed) : s.executed[j].exit_code = 0

\* what a management operation has done and returned
StopsAtFirstFailure(s) ==
    /\ ExecutedInListedOrder(s)
    /\ StoppedAtFirstFailure(s)
    /\ LastFailed(s) <=> s.returned = "False"
    /\ AllExitedZero(s) <=> s.returned = "True"

\* C30: setup_usb_storage and setup_wireless_client_mode execute their
\* commands in the order of the list and stop at the first whose exit code
\* is not 0: nothing is executed after it and the operation returns False;
\* it returns True if and only if every command of the list exited 0.
C30_StopsAtFirstFailure == setup.op # "none" => StopsAtFirstFailure(setup)

\* C30 happens: setup_wireless_client_mode returned False at a command in
\* the middle of its list, the commands before it having exited 0
C30_Witness ==
    /\ setup.op = "setup_wireless_client_mode"
    /\ setup.returned = "False"
    /\ Len(setup.executed) = 7
    /\ setup.executed[7].exit_code = 127
    /\ setup.executed[6].exit_code = 0

\* setup_usb_storage ran its whole list and returned True
UsbStorageSetUp ==
    /\ setup.op = "setup_usb_storage"
    /\ setup.returned = "True"
    /\ Len(setup.executed) = Len(UsbStorageCommands(MountPoint))

====
